---- MODULE Spec2Model ----
(***************************************************************************)
(* A model of the incremental CDCL solver (CDCLSolverIncremental), its     *)
(* clause database (ClauseDatabase) and the portfolio manager              *)
(* (PortfolioManager).                                                     *)
(*                                                                         *)
(* Clause ids, trail indices and watch-bucket indices are 0-based as in    *)
(* the C++ code; the TLA+ sequences that hold them are 1-based, so slot    *)
(* id of a vector v is v[id + 1].                                          *)
(***************************************************************************)
EXTENDS Integers, Sequences, FiniteSets, TLC

VARIABLES
    solver,     \* the CDCLSolverIncremental object (with its ClauseDatabase in .db)
    pc,         \* where the caller of the solver is: "idle", inside solve(): "loop", or "dead"
    loc,        \* the locals of the running solve(assume) call
    ret,        \* what the last API call returned
    hist,       \* observations about the calls made so far (used by the properties only)
    pm,         \* the PortfolioManager object
    workers,    \* the portfolio's worker threads
    monitor,    \* the portfolio's monitor thread
    mgr         \* the thread that called PortfolioManager::solve

vars == <<solver, pc, loc, ret, hist, pm, workers, monitor, mgr>>
solverVars == <<solver, pc, loc, ret, hist>>
portfolioVars == <<pm, workers, monitor, mgr>>

(***************************************************************************)
(* Bounds of the model.                                                    *)
(***************************************************************************)
MaxInputVar == 2        \* clauses and assumptions given through the API range over variables 1..MaxInputVar
MaxClauseLen == 1       \* longest clause given to addClause and addTemporaryClause
MaxInitClauseLen == 2   \* longest clause of a generated initial formula
MaxInitClauses == 1     \* longest generated initial formula
MaxAssume == 2          \* longest assumption list
MaxAssumeVar == 1       \* generated assumption lists range over variables 1..MaxAssumeVar
MaxOps == 3             \* API calls per solver
MaxAdds == 1            \* of them calls of addClause and addTemporaryClause
MaxConfigs == 1         \* of them calls of setAssumptions and setRestartStrategy
MaxSolves == 2          \* of them calls of solve
SearchSolves == 1       \* calls of solve on a larger formula
MaxIter == 8            \* iterations of the main loop per solve that the model follows
MaxNewVars == 2         \* calls of newVariable per solver
MaxPollBudget == 1      \* a timeout can first be seen at any of the first MaxPollBudget + 1 polls of a step
NoExpiry == 1000        \* a poll budget no step of the model uses up
MaxFormulaVar == 4      \* largest variable of an initial formula
MaxPortfolioSolves == 2 \* calls of PortfolioManager::solve on one manager
MaxPortfolioVar == 1     \* variables of the formula the portfolio is given
RunSolves == 1          \* calls of PortfolioManager::solve in a run followed worker step by worker step
MaxThreads == 1         \* largest num_threads such a manager is constructed with
MaxDbOps == 3           \* calls made on a ClauseDatabase after its construction
MaxLearntsCap == 1      \* setMaxLearnts is called with 0..MaxLearntsCap
DLCap == MaxFormulaVar + MaxNewVars + 1  \* memory cells modelled behind decision_levels

(***************************************************************************)
(* Program constants.                                                      *)
(***************************************************************************)
NoAntecedent == -1              \* std::numeric_limits<size_t>::max()
DefaultRestartThreshold == 100
StuckRestartLimit == 50
ConsecutiveRestartLimit == 10
StuckAtLevelLimit == 400
NoProgressLimit == 2000
MinimizeSizeLimit == 100
MinimizePollEvery == 50
PollEveryPropagations == 1000
PollEveryResolutions == 100
BaseMemory == 3276800              \* BASE_MEMORY (25 MiB), counted in 8-byte words
ClauseMemory == 10                 \* CLAUSE_MEMORY (80 bytes), in 8-byte words
VarMemory == 5                     \* VAR_MEMORY (40 bytes), in 8-byte words
SystemAvailableMemory == 1073741824  \* getSystemAvailableMemory() on Linux (8 GiB), in 8-byte words
LbdKeepThreshold == 2           \* clause_deletion_threshold 2.5 on an integer lbd: lbd <= 2 is kept

Abs(x) == IF x < 0 THEN -x ELSE x
Max(a, b) == IF a > b THEN a ELSE b
Min(a, b) == IF a < b THEN a ELSE b

RECURSIVE SeqToSet(_)
SeqToSet(s) == IF s = <<>> THEN {} ELSE {Head(s)} \cup SeqToSet(Tail(s))

InSeq(x, s) == \E i \in 1..Len(s) : s[i] = x

RECURSIVE FilterSeq(_, _)
\* std::remove_if(abs(lit) == var): the literals of s whose variable is not var, in order
FilterSeq(s, var) ==
    IF s = <<>> THEN <<>>
    ELSE IF Abs(Head(s)) = var THEN FilterSeq(Tail(s), var)
         ELSE <<Head(s)>> \o FilterSeq(Tail(s), var)

RECURSIVE SortedSeq(_)
\* std::sort followed by std::unique: the elements of a set of integers in ascending order
SortedSeq(S) ==
    IF S = {} THEN <<>>
    ELSE LET mn == CHOOSE x \in S : \A y \in S : x <= y
         IN <<mn>> \o SortedSeq(S \ {mn})

\* erase a key of a std::unordered_map
MapErase(f, k) == [x \in DOMAIN f \ {k} |-> f[x]]
\* operator[] assignment of a std::unordered_map
MapPut(f, k, v) == [x \in DOMAIN f \cup {k} |-> IF x = k THEN v ELSE f[x]]
EmptyMap == [x \in {} |-> 0]

(***************************************************************************)
(* ClauseInfo and ClauseDatabase.                                          *)
(***************************************************************************)
ClauseInfo(lits, learned, core) ==
    [ literals   |-> lits,
      is_learned |-> learned,
      is_core    |-> core,
      lbd        |-> 0,
      present    |-> TRUE,      \* FALSE models the slot set to nullptr
      w1         |-> IF Len(lits) >= 1 THEN lits[1] ELSE 0,
      w2         |-> IF Len(lits) >= 2 THEN lits[2] ELSE 0 ]

NullClause ==
    [ literals |-> <<>>, is_learned |-> FALSE, is_core |-> FALSE, lbd |-> 0,
      present |-> FALSE, w1 |-> 0, w2 |-> 0 ]

\* size_t watch_idx = lit > 0 ? lit : num_variables + std::abs(lit)
WatchIdx(db, lit) == IF lit > 0 THEN lit ELSE db.num_variables + Abs(lit)

NewDatabase(num_vars) ==
    [ clauses            |-> <<>>,
      watches            |-> [i \in 0..(2 * num_vars) |-> <<>>],
      num_variables      |-> num_vars,
      original_clauses   |-> 0,
      active_learned     |-> 0,
      max_learnt_clauses |-> num_vars * 4 ]

\* watches[idx].push_back(id)
PushWatch(w, idx, id) == [w EXCEPT ![idx] = Append(@, id)]

\* the watch registration shared by addClause and addLearnedClause
RegisterWatches(db, clause, id) ==
    IF Len(clause) >= 2
    THEN PushWatch(PushWatch(db.watches, WatchIdx(db, clause[1]), id),
                   WatchIdx(db, clause[2]), id)
    ELSE IF Len(clause) = 1
         THEN PushWatch(db.watches, WatchIdx(db, clause[1]), id)
         ELSE db.watches

\* ClauseDatabase::addClause(clause, is_learned = false); the new id is Len(db.clauses)
DbAddClause(db, clause) ==
    [db EXCEPT !.clauses = Append(@, ClauseInfo(clause, FALSE, TRUE)),
               !.original_clauses = @ + 1,
               !.watches = RegisterWatches(db, clause, Len(db.clauses))]

RECURSIVE RemoveAll(_, _)
\* erase(std::remove(list, id)): every occurrence of id leaves the list
RemoveAll(s, id) ==
    IF s = <<>> THEN <<>>
    ELSE IF Head(s) = id THEN RemoveAll(Tail(s), id)
         ELSE <<Head(s)>> \o RemoveAll(Tail(s), id)

\* ClauseDatabase::removeClause
DbRemoveClause(db, id) ==
    IF id >= Len(db.clauses) \/ ~db.clauses[id + 1].present THEN db
    ELSE LET c == db.clauses[id + 1]
             w1 == IF Len(c.literals) >= 2
                   THEN LET a == [db.watches EXCEPT ![WatchIdx(db, c.w1)] = RemoveAll(@, id)]
                        IN [a EXCEPT ![WatchIdx(db, c.w2)] = RemoveAll(@, id)]
                   ELSE IF Len(c.literals) = 1
                        THEN [db.watches EXCEPT ![WatchIdx(db, c.literals[1])] = RemoveAll(@, id)]
                        ELSE db.watches
         IN [db EXCEPT !.watches = w1,
                       !.active_learned = IF c.is_learned THEN @ - 1 ELSE @,
                       !.clauses[id + 1] = NullClause]

RECURSIVE ReduceFrom(_, _, _)
\* the removal loop of reduceLearnedClauses over the learned, non-core clauses: every
\* clause activity is 0 (the solver never bumps one), so all scores are equal and the
\* candidates are visited in id order; a clause with lbd <= 2.5 is skipped
ReduceFrom(db, id, to_remove) ==
    IF to_remove <= 0 \/ id >= Len(db.clauses) THEN db
    ELSE LET c == db.clauses[id + 1]
         IN IF c.present /\ c.is_learned /\ ~c.is_core /\ c.lbd > LbdKeepThreshold
            THEN ReduceFrom(DbRemoveClause(db, id), id + 1, to_remove - 1)
            ELSE ReduceFrom(db, id + 1, to_remove)

\* ClauseDatabase::reduceLearnedClauses with the empty assignment map addLearnedClause
\* passes: garbageCollect then finds no satisfied clause and removes nothing
DbReduceLearnedClauses(db) ==
    IF db.active_learned <= db.max_learnt_clauses THEN db
    ELSE ReduceFrom(db, 0, db.active_learned - ((db.max_learnt_clauses * 3) \div 4))

\* ClauseDatabase::addLearnedClause(clause, lbd)
DbAddLearnedClause(db, clause, lbd) ==
    LET id == Len(db.clauses)
        added == [db EXCEPT !.clauses = Append(@, [ClauseInfo(clause, TRUE, FALSE) EXCEPT !.lbd = lbd]),
                            !.active_learned = @ + 1,
                            !.watches = RegisterWatches(db, clause, id)]
    IN DbReduceLearnedClauses(added)

RECURSIVE InitWatchesFrom(_, _)
InitWatchesFrom(db, id) ==
    IF id >= Len(db.clauses) THEN db
    ELSE LET c == db.clauses[id + 1]
         IN IF ~c.present THEN InitWatchesFrom(db, id + 1)
            ELSE InitWatchesFrom(
                   [db EXCEPT !.watches = RegisterWatches(db, c.literals, id),
                              !.clauses[id + 1].w1 = IF Len(c.literals) >= 1 THEN c.literals[1] ELSE @,
                              !.clauses[id + 1].w2 = IF Len(c.literals) >= 2 THEN c.literals[2]
                                                     ELSE IF Len(c.literals) = 1 THEN 0 ELSE @],
                   id + 1)

\* ClauseDatabase::initWatches
DbInitWatches(db) ==
    InitWatchesFrom([db EXCEPT !.watches = [i \in DOMAIN db.watches |-> <<>>]], 0)

\* ClauseDatabase::updateWatches(id, old_lit, new_lit)
DbUpdateWatches(db, id, old_lit, new_lit) ==
    IF id >= Len(db.clauses) \/ ~db.clauses[id + 1].present THEN db
    ELSE LET removed == [db.watches EXCEPT ![WatchIdx(db, old_lit)] = RemoveAll(@, id)]
             c == db.clauses[id + 1]
         IN [db EXCEPT !.watches = PushWatch(removed, WatchIdx(db, new_lit), id),
                       !.clauses[id + 1].w1 = IF c.w1 = old_lit THEN new_lit ELSE @,
                       !.clauses[id + 1].w2 = IF c.w1 # old_lit /\ c.w2 = old_lit THEN new_lit ELSE @]

\* ClauseDatabase::addVariable
DbAddVariable(db) ==
    [db EXCEPT !.num_variables = @ + 1,
               !.watches = [i \in 0..(2 * (db.num_variables + 1)) |->
                              IF i \in DOMAIN db.watches THEN db.watches[i] ELSE <<>>]]

\* ClauseDatabase::clearLearnedClauses: the vector is cut to the NUMBER of core clauses
DbClearLearnedClauses(db) ==
    LET num_original == Cardinality({i \in 1..Len(db.clauses) :
                                        db.clauses[i].present /\ db.clauses[i].is_core})
    IN [db EXCEPT !.clauses = SubSeq(@, 1, num_original),
                  !.watches = [i \in 0..(2 * db.num_variables) |-> <<>>],
                  !.active_learned = 0,
                  !.original_clauses = num_original]

\* ClauseDatabase::computeLBD(clause, levels); size is levels.size()
DbComputeLBD(clause, levels, size) ==
    Cardinality({levels[Abs(clause[i])] : i \in {j \in 1..Len(clause) :
                    Abs(clause[j]) < size /\ levels[Abs(clause[j])] > 0}})

DbNumClauses(db) == db.original_clauses + db.active_learned

(***************************************************************************)
(* CDCLSolverIncremental.  Operators that run inside an API call thread a  *)
(* record m: m.s is the solver object, m.tb the number of checkTimeout()   *)
(* polls that still answer false, m.to whether a poll has answered true,   *)
(* m.ub whether an out-of-bounds access of decision_levels happened, and   *)
(* m.ok the boolean the modelled function returns.                         *)
(***************************************************************************)
TrailNode(lit, level, ante, is_dec) ==
    [ literal |-> lit, decision_level |-> level, antecedent_id |-> ante, is_decision |-> is_dec ]

\* (lit > 0 && value) || (lit < 0 && !value) for an assigned variable
LitTrue(asg, lit) ==
    /\ Abs(lit) \in DOMAIN asg
    /\ \/ (lit > 0 /\ asg[Abs(lit)])
       \/ (lit < 0 /\ ~asg[Abs(lit)])

Unassigned(asg, lit) == Abs(lit) \notin DOMAIN asg

\* CDCLSolverIncremental::checkTimeout as seen by the caller: does this poll answer true?
PollFires(m) == m.tb = 0
Polled(m) == IF m.tb = 0 THEN [m EXCEPT !.to = TRUE] ELSE [m EXCEPT !.tb = @ - 1]

\* decision_levels[var] = level; an index at or past size() is an out-of-bounds write
SetLevel(m, var, level) ==
    [m EXCEPT !.s.decision_levels[var] = level,
              !.ub = @ \/ (var >= m.s.dl_size)]

\* an enqueue that leaves decision_levels[var] as it is
EnqueueNoLevel(m, lit, level, ante, is_dec) ==
    [m EXCEPT !.s.trail = Append(@, TrailNode(lit, level, ante, is_dec)),
              !.s.var_to_trail = MapPut(@, Abs(lit), Len(m.s.trail)),
              !.s.assignments = MapPut(@, Abs(lit), lit > 0)]

\* trail.emplace_back(...); var_to_trail[var] = trail.size() - 1; assignments[var] = value;
\* decision_levels[var] = level
Enqueue(m, lit, level, ante, is_dec) ==
    SetLevel([m EXCEPT !.s.trail = Append(@, TrailNode(lit, level, ante, is_dec)),
                       !.s.var_to_trail = MapPut(@, Abs(lit), Len(m.s.trail)),
                       !.s.assignments = MapPut(@, Abs(lit), lit > 0)],
             Abs(lit), level)

RECURSIVE PropWatchList(_, _, _, _)
\* the loop of unitPropagate over the copy of the watch list of neg_lit
PropWatchList(m, neg_lit, copy, i) ==
    IF i > Len(copy) THEN m
    ELSE LET id == copy[i] IN
      IF id >= Len(m.s.db.clauses) \/ ~m.s.db.clauses[id + 1].present
      THEN PropWatchList(m, neg_lit, copy, i + 1)
      ELSE
        LET c0 == m.s.db.clauses[id + 1]
            c == IF c0.w2 = neg_lit THEN [c0 EXCEPT !.w1 = c0.w2, !.w2 = c0.w1] ELSE c0
            ms == [m EXCEPT !.s.db.clauses[id + 1] = c]
            other_lit == c.w2
            asg == m.s.assignments
            cand == {k \in 1..Len(c.literals) :
                        /\ c.literals[k] # c.w1
                        /\ c.literals[k] # c.w2
                        /\ (Unassigned(asg, c.literals[k]) \/ LitTrue(asg, c.literals[k]))}
        IN IF LitTrue(asg, other_lit) THEN PropWatchList(ms, neg_lit, copy, i + 1)
           ELSE IF cand # {}
           THEN LET l == c.literals[CHOOSE k \in cand : \A k2 \in cand : k <= k2]
                    db1 == DbUpdateWatches(ms.s.db, id, neg_lit, l)
                IN PropWatchList([ms EXCEPT !.s.db = [db1 EXCEPT !.clauses[id + 1].w1 = l]],
                                 neg_lit, copy, i + 1)
           ELSE IF Unassigned(asg, other_lit)
           THEN PropWatchList(
                    [Enqueue(ms, other_lit, ms.s.decision_level, id, FALSE)
                        EXCEPT !.s.propagations = @ + 1],
                    neg_lit, copy, i + 1)
           ELSE [ms EXCEPT !.s.conflict_clause_id = id, !.ok = FALSE]

RECURSIVE PropTrail(_, _)
RECURSIVE FinalScan(_, _)

\* a unitPropagate without the scan over the clauses of the database
FinalScanSkipped(m, i) == m

\* CDCLSolverIncremental::unitPropagate: trail_index starts at 0 on every call
UnitPropagate(m) == PropTrail([m EXCEPT !.ok = TRUE], 0)

\* the while loop of unitPropagate over the trail
PropTrail(m, trail_index) ==
    IF trail_index >= Len(m.s.trail) THEN FinalScan(m, 0)
    ELSE IF trail_index % PollEveryPropagations = 0 /\ PollFires(m)
    THEN [Polled(m) EXCEPT !.ok = FALSE]
    ELSE LET m0 == IF trail_index % PollEveryPropagations = 0 THEN Polled(m) ELSE m
             neg_lit == -(m0.s.trail[trail_index + 1].literal)
             copy == m0.s.db.watches[WatchIdx(m0.s.db, neg_lit)]
             m1 == PropWatchList(m0, neg_lit, copy, 1)
         IN IF ~m1.ok THEN m1 ELSE PropTrail(m1, trail_index + 1)

\* the scan of unitPropagate over every clause of the database
FinalScan(m, i) ==
    IF i >= Len(m.s.db.clauses) THEN m
    ELSE LET c == m.s.db.clauses[i + 1]
             asg == m.s.assignments
             open == {k \in 1..Len(c.literals) : Unassigned(asg, c.literals[k])}
         IN IF ~c.present \/ c.literals = <<>> THEN FinalScan(m, i + 1)
            ELSE IF \E k \in 1..Len(c.literals) : LitTrue(asg, c.literals[k])
            THEN FinalScan(m, i + 1)
            ELSE IF open = {}
            THEN [m EXCEPT !.s.conflict_clause_id = i, !.ok = FALSE]
            ELSE IF Cardinality(open) = 1
            THEN LET last_unassigned_lit == c.literals[CHOOSE k \in open : TRUE]
                 IN UnitPropagate([Enqueue(m, last_unassigned_lit, m.s.decision_level, i, FALSE)
                                      EXCEPT !.s.propagations = @ + 1])
            ELSE FinalScan(m, i + 1)

\* the trail of s is stable under the clauses of its database: no live clause with
\* literals has all of them false, or all of them false but a single unassigned one
Stable(s) ==
    \A id \in 1..Len(s.db.clauses) :
        LET c == s.db.clauses[id]
            open == {k \in 1..Len(c.literals) : Unassigned(s.assignments, c.literals[k])}
        IN (c.present /\ c.literals # <<>>) =>
              \/ Cardinality(open) >= 2
              \/ \E k \in 1..Len(c.literals) : LitTrue(s.assignments, c.literals[k])

RECURSIVE SortDesc(_)
\* std::sort(..., a > b) of a vector of trail indices (equal entries stay)
SortDesc(q) ==
    IF q = <<>> THEN <<>>
    ELSE LET k == CHOOSE i \in 1..Len(q) : \A j \in 1..Len(q) : q[i] >= q[j]
         IN <<q[k]>> \o SortDesc(SubSeq(q, 1, k - 1) \o SubSeq(q, k + 1, Len(q)))

\* trail[var_to_trail[var]].decision_level == decision_level for a variable on the trail
AtCurrentLevel(s, var) ==
    /\ var \in DOMAIN s.var_to_trail
    /\ s.trail[s.var_to_trail[var] + 1].decision_level = s.decision_level

\* db->clauses[id] can be dereferenced
ValidClause(s, id) == id >= 0 /\ id < Len(s.db.clauses) /\ s.db.clauses[id + 1].present

RECURSIVE AddAntecedent(_, _, _, _)
\* the loop of analyzeConflict that adds the literals of the antecedent to the learned
\* clause; r holds learned_clause, current_level_vars, current_level_indices, backtrack_level
AddAntecedent(s, r, antecedent, var) ==
    IF antecedent = <<>> THEN r
    ELSE LET lit == Head(antecedent)
             lit_var == Abs(lit)
             on_trail == lit_var \in DOMAIN s.var_to_trail
             lvl == s.trail[s.var_to_trail[lit_var] + 1].decision_level
             r1 == IF lit_var = var \/ InSeq(lit, r.learned) THEN r
                   ELSE LET r0 == [r EXCEPT !.learned = Append(@, lit)]
                        IN IF ~on_trail THEN r0
                           ELSE IF lvl = s.decision_level
                           THEN IF lit_var \in r.clv THEN r0
                                ELSE [r0 EXCEPT !.clv = @ \cup {lit_var},
                                                !.idx = Append(@, s.var_to_trail[lit_var])]
                           ELSE IF lvl > r.bt THEN [r0 EXCEPT !.bt = lvl]
                           ELSE r0
         IN AddAntecedent(s, r1, Tail(antecedent), var)

RECURSIVE PreserveAssumptions(_, _)
\* the last loop of analyzeConflict: an assumption whose variable is not in the learned
\* clause but is on the trail with decision_levels[var] == 0 is appended as it is
PreserveAssumptions(m, k) ==
    IF k > Len(m.s.assumptions) THEN m
    ELSE LET assumption == m.s.assumptions[k]
             var == Abs(assumption)
             has_var == \E i \in 1..Len(m.learned) : Abs(m.learned[i]) = var
         IN IF has_var \/ var \notin DOMAIN m.s.var_to_trail
            THEN PreserveAssumptions(m, k + 1)
            ELSE LET m1 == [m EXCEPT !.ub = @ \/ (var >= m.s.dl_size)]
                 IN IF m.s.decision_levels[var] = 0
                    THEN PreserveAssumptions([m1 EXCEPT !.learned = Append(@, assumption)], k + 1)
                    ELSE PreserveAssumptions(m1, k + 1)

RECURSIVE ResolveLoop(_, _, _)
\* the resolution loop of analyzeConflict and what follows it.  The loop is deterministic
\* apart from its checkTimeout() polls, so when it comes back to a configuration it has
\* been in (r.visited) it runs until a poll answers true
ResolveLoop(m, r, pos) ==
    IF Cardinality(r.clv) <= 1 \/ pos >= Len(r.idx)
    THEN PreserveAssumptions([m EXCEPT !.learned = SortedSeq(SeqToSet(r.learned)), !.bt = r.bt], 1)
    ELSE IF pos % PollEveryResolutions = 0 /\ PollFires(m)
    THEN [Polled(m) EXCEPT !.learned = r.learned, !.bt = 0]
    ELSE LET m0 == IF pos % PollEveryResolutions = 0 THEN Polled(m) ELSE m
             node == m.s.trail[r.idx[pos + 1] + 1]
             var == Abs(node.literal)
         IN IF var \notin r.clv \/ node.is_decision \/ node.antecedent_id = NoAntecedent
            THEN ResolveLoop(m0, r, pos + 1)
            ELSE IF ~ValidClause(m.s, node.antecedent_id)
            THEN [m0 EXCEPT !.crash = TRUE, !.learned = r.learned, !.bt = 0]
            ELSE LET antecedent == m.s.db.clauses[node.antecedent_id + 1].literals
                     r1 == AddAntecedent(m.s, [r EXCEPT !.learned = FilterSeq(@, var)],
                                         antecedent, var)
                     r2 == [r1 EXCEPT !.clv = @ \ {var}, !.idx = SortDesc(@)]
                     key == <<r2.learned, r2.clv, SeqToSet(r2.idx), r2.bt>>
                 IN IF key \in r.visited
                    THEN [m0 EXCEPT !.tb = 0, !.to = TRUE, !.learned = r2.learned, !.bt = 0]
                    ELSE ResolveLoop(m0, [r2 EXCEPT !.visited = @ \cup {key}], 0)

\* CDCLSolverIncremental::analyzeConflict(conflict_id, learned_clause): the result is in
\* m.learned (learned_clause) and m.bt (the returned backtrack level)
AnalyzeConflict(m, conflict_id) ==
    IF ~ValidClause(m.s, conflict_id)
    THEN [m EXCEPT !.crash = TRUE, !.learned = <<>>, !.bt = 0]
    ELSE LET lits == m.s.db.clauses[conflict_id + 1].literals
             clv == {Abs(lits[k]) : k \in {j \in 1..Len(lits) : AtCurrentLevel(m.s, Abs(lits[j]))}}
             idx == SortDesc(SortedSeq({m.s.var_to_trail[v] : v \in clv}))
             all_false == \A k \in 1..Len(lits) : LitTrue(m.s.assignments, -lits[k])
         IN ResolveLoop([m EXCEPT !.up = [ret |-> "false", ok |-> all_false]],
                        [learned |-> lits, clv |-> clv, idx |-> idx, bt |-> 0, visited |-> {}], 0)

RECURSIVE BacktrackInclusive(_, _)
\* a backtrack that also removes the entries of the target level
BacktrackInclusive(m, level) ==
    IF m.s.trail # <<>> /\ m.s.trail[Len(m.s.trail)].decision_level >= level
    THEN LET var == Abs(m.s.trail[Len(m.s.trail)].literal)
             m1 == SetLevel([m EXCEPT !.s.assignments = MapErase(@, var),
                                      !.s.var_to_trail = MapErase(@, var),
                                      !.s.trail = SubSeq(@, 1, Len(@) - 1)],
                            var, 0)
         IN BacktrackInclusive(m1, level)
    ELSE [m EXCEPT !.s.decision_level = level]

RECURSIVE Backtrack(_, _)
\* CDCLSolverIncremental::backtrack(level)
Backtrack(m, level) ==
    IF m.s.trail # <<>> /\ m.s.trail[Len(m.s.trail)].decision_level > level
    THEN LET var == Abs(m.s.trail[Len(m.s.trail)].literal)
             m1 == SetLevel([m EXCEPT !.s.assignments = MapErase(@, var),
                                      !.s.var_to_trail = MapErase(@, var),
                                      !.s.trail = SubSeq(@, 1, Len(@) - 1)],
                            var, 0)
         IN Backtrack(m1, level)
    ELSE [m EXCEPT !.s.decision_level = level]

\* what backtrack(d) called on the solver "before" has to leave in "after": the entries of
\* the trail with a level of at most d, which are a prefix of it, no assignment and no
\* var_to_trail entry for the variables of the removed entries, and decision_level = d
BacktrackPost(before, after, d) ==
    /\ after.trail = SelectSeq(before.trail, LAMBDA node : node.decision_level <= d)
    /\ after.trail = SubSeq(before.trail, 1, Len(after.trail))
    /\ \A k \in (Len(after.trail) + 1)..Len(before.trail) :
          /\ Abs(before.trail[k].literal) \notin DOMAIN after.assignments
          /\ Abs(before.trail[k].literal) \notin DOMAIN after.var_to_trail
    /\ after.decision_level = d

\* a call backtrack(level) of solve and restart; m.bk records whether every call of the
\* step with level <= decision_level left what BacktrackPost says (ok) and whether one
\* of them removed a part of the trail and kept the rest (cut)
Backtracked(m, level) ==
    LET after == Backtrack(m, level)
    IN IF level > m.s.decision_level THEN after
       ELSE [after EXCEPT
               !.bk = [ok  |-> @.ok /\ BacktrackPost(m.s, after.s, level),
                       cut |-> @.cut \/ (after.s.trail # <<>> /\ Len(after.s.trail) < Len(m.s.trail))]]

\* decision_levels[var] read; an index at or past size() is an out-of-bounds read
ReadLevel(m, var) == [m EXCEPT !.ub = @ \/ (var >= m.s.dl_size)]

\* "if ((timeout_check_counter++ % 50) == 0) { if (elapsed > max_time || checkTimeout()) ..."
\* lt says whether the local 100 ms timer of minimizeClause has run out
MinPollDue(m) == m.tc % MinimizePollEvery = 0
MinPollFires(m, lt) == MinPollDue(m) /\ (lt \/ PollFires(m))
MinPolled(m, lt) ==
    LET m1 == [m EXCEPT !.tc = @ + 1]
    IN IF MinPollDue(m) /\ ~lt THEN Polled(m1) ELSE m1

RECURSIVE ReasonLoop(_, _, _, _, _, _)
\* the loop of isRedundant over the literals of the reason clause; the answer is m.ok
ReasonLoop(m, var, seen, reason, k, lt) ==
    IF k > Len(reason) THEN [m EXCEPT !.ok = TRUE]
    ELSE IF MinPollFires(m, lt) THEN [MinPolled(m, lt) EXCEPT !.ok = FALSE]
    ELSE LET m0 == MinPolled(m, lt)
             reason_lit == reason[k]
             reason_var == Abs(reason_lit)
         IN IF reason_var = var THEN ReasonLoop(m0, var, seen, reason, k + 1, lt)
            ELSE IF -reason_lit \in seen THEN ReasonLoop(m0, var, seen, reason, k + 1, lt)
            ELSE IF reason_var \notin DOMAIN m.s.var_to_trail THEN [m0 EXCEPT !.ok = FALSE]
            ELSE LET m1 == ReadLevel(ReadLevel(m0, reason_var), var)
                 IN IF m.s.decision_levels[reason_var] > m.s.decision_levels[var]
                    THEN [m1 EXCEPT !.ok = FALSE]
                    ELSE IF m.s.trail[m.s.var_to_trail[reason_var] + 1].decision_level = 0
                    THEN [m1 EXCEPT !.ok = FALSE]
                    ELSE ReasonLoop(m1, var, seen, reason, k + 1, lt)

\* CDCLSolverIncremental::isRedundant(lit, seen, timeout_check_counter, ...); the answer is m.ok
IsRedundant(m, lit, seen, lt) ==
    IF MinPollFires(m, lt) THEN [MinPolled(m, lt) EXCEPT !.ok = FALSE]
    ELSE LET m0 == MinPolled(m, lt)
             var == Abs(lit)
             node == m.s.trail[m.s.var_to_trail[var] + 1]
         IN IF var \notin DOMAIN m.s.var_to_trail THEN [m0 EXCEPT !.ok = FALSE]
            ELSE IF node.is_decision \/ node.antecedent_id = NoAntecedent THEN [m0 EXCEPT !.ok = FALSE]
            ELSE IF InSeq(lit, m.s.assumptions) THEN [m0 EXCEPT !.ok = FALSE]
            ELSE IF ~ValidClause(m.s, node.antecedent_id) THEN [m0 EXCEPT !.ok = FALSE]
            ELSE ReasonLoop(m0, var, seen, m.s.db.clauses[node.antecedent_id + 1].literals, 1, lt)

RECURSIVE MinimizeLoop(_, _, _, _, _, _)
\* the loop of minimizeClause over the literals of the clause; the answer is m.learned
MinimizeLoop(m, clause, seen, minimized, k, lt) ==
    IF k > Len(clause)
    THEN [m EXCEPT !.learned = IF Len(minimized) < Len(clause) THEN minimized ELSE clause]
    ELSE IF MinPollFires(m, lt) THEN [MinPolled(m, lt) EXCEPT !.learned = clause]
    ELSE LET m0 == MinPolled(m, lt)
             lit == clause[k]
             var == Abs(lit)
             on_trail == var \in DOMAIN m.s.var_to_trail
             m1 == IF on_trail THEN ReadLevel(m0, var) ELSE m0
         IN IF on_trail /\ m.s.decision_levels[var] = 0
            THEN MinimizeLoop(m1, clause, seen, Append(minimized, lit), k + 1, lt)
            ELSE IF InSeq(lit, m.s.assumptions)
            THEN MinimizeLoop(m1, clause, seen, Append(minimized, lit), k + 1, lt)
            ELSE LET m2 == IsRedundant(m1, lit, seen, lt)
                 IN MinimizeLoop(m2, clause, seen,
                                 IF m2.ok THEN minimized ELSE Append(minimized, lit), k + 1, lt)

\* CDCLSolverIncremental::minimizeClause(clause) applied to m.learned
MinimizeClause(m, lt) ==
    IF Len(m.learned) > MinimizeSizeLimit THEN m
    ELSE IF PollFires(m) THEN Polled(m)
    ELSE IF Len(m.learned) <= 1 THEN Polled(m)
    ELSE MinimizeLoop([Polled(m) EXCEPT !.tc = 0], m.learned, SeqToSet(m.learned), <<>>, 1, lt)

RECURSIVE TwoAdic(_)
\* the loop "while (temp % 2 == 0) { temp /= 2; power++; }" for i > 0
TwoAdic(i) == IF i % 2 = 0 THEN 1 + TwoAdic(i \div 2) ELSE 0

LubyDiverges == 0   \* marks a call of lubySequence that never returns
\* the number of presets initializeConfigs() pushes, one worker thread each
NumConfigs == 4

RECURSIVE LubySequence(_)
\* CDCLSolverIncremental::lubySequence(i) for i > 0; a call that recurses on its own
\* argument never returns
LubySequence(i) ==
    LET power == TwoAdic(i)
        temp == i \div (2 ^ power)
        next == i - (2 ^ power) + 1
    IN IF temp = 1 THEN 2 ^ power
       ELSE IF next = i THEN LubyDiverges
       ELSE LubySequence(next)

\* CDCLSolverIncremental::shouldRestart, when the call returns
ShouldRestart(s) ==
    IF s.use_luby_restarts
    THEN s.conflicts_since_restart >= s.restart_threshold * LubySequence(s.luby_index)
    ELSE s.conflicts_since_restart >= s.restart_threshold

\* shouldRestart does not return: lubySequence recurses without end
ShouldRestartDiverges(s) == s.use_luby_restarts /\ LubySequence(s.luby_index) = LubyDiverges

\* CDCLSolverIncremental::restart
Restart(m) ==
    LET m1 == Backtracked(m, 0)
    IN [m1 EXCEPT !.s.luby_index = IF m.s.use_luby_restarts THEN @ + 1 ELSE @,
                  !.s.restart_threshold = IF m.s.use_luby_restarts THEN @ ELSE (@ * 3) \div 2,
                  !.s.conflicts_since_restart = 0,
                  !.s.restarts = @ + 1]

RECURSIVE CountLits(_)
\* for each variable, the number of literals of it in a list of clauses
CountLits(lits) ==
    IF lits = <<>> THEN EmptyMap
    ELSE LET rest == CountLits(Tail(lits))
             var == Abs(Head(lits))
         IN MapPut(rest, var, IF var \in DOMAIN rest THEN rest[var] + 1 ELSE 1)

RECURSIVE Flatten(_)
Flatten(cs) == IF cs = <<>> THEN <<>> ELSE Head(cs).literals \o Flatten(Tail(cs))

\* CDCLSolverIncremental::initializeVSIDS: activity[var] += 1.0 for every literal of every
\* clause.  The model keeps, for each variable, the number of such additions and bumps,
\* which is a lower bound of the floating-point score (every bump adds var_inc >= 1)
InitializeVSIDS(s) ==
    LET occ == CountLits(Flatten(s.db.clauses))
    IN [s EXCEPT !.activity = [v \in DOMAIN s.activity \cup DOMAIN occ |->
                                  (IF v \in DOMAIN s.activity THEN s.activity[v] ELSE 0)
                                  + (IF v \in DOMAIN occ THEN occ[v] ELSE 0)]]

RECURSIVE BumpAll(_, _)
\* bumpVarActivity(std::abs(lit)) for every literal of the learned clause
BumpAll(activity, lits) ==
    IF lits = <<>> THEN activity
    ELSE LET var == Abs(Head(lits))
         IN BumpAll(MapPut(activity, var, IF var \in DOMAIN activity THEN activity[var] + 1 ELSE 1),
                    Tail(lits))

RECURSIVE MaxVar(_)
MaxVar(lits) == IF lits = <<>> THEN 0 ELSE Max(Abs(Head(lits)), MaxVar(Tail(lits)))

RECURSIVE AddAll(_, _)
AddAll(db, formula) == IF formula = <<>> THEN db ELSE AddAll(DbAddClause(db, Head(formula)), Tail(formula))

RECURSIVE Concat(_)
Concat(formula) == IF formula = <<>> THEN <<>> ELSE Head(formula) \o Concat(Tail(formula))

\* CDCLSolverIncremental::CDCLSolverIncremental(formula)
NewSolver(formula) ==
    LET num_vars == MaxVar(Concat(formula))
    IN InitializeVSIDS(
        [ db                      |-> AddAll(NewDatabase(num_vars), formula),
          trail                   |-> <<>>,
          var_to_trail            |-> EmptyMap,
          assignments             |-> EmptyMap,
          decision_levels         |-> [i \in 0..DLCap |-> 0],
          dl_size                 |-> num_vars + 1,
          decision_level          |-> 0,
          conflicts_since_restart |-> 0,
          restart_threshold       |-> DefaultRestartThreshold,
          luby_index              |-> 1,
          use_luby_restarts       |-> TRUE,
          conflicts               |-> 0,
          decisions               |-> 0,
          propagations            |-> 0,
          restarts                |-> 0,
          stuck_counter           |-> 0,
          conflict_clause_id      |-> 0,
          assumptions             |-> <<>>,
          core                    |-> <<>>,
          activity                |-> EmptyMap ])

RECURSIVE TouchVars(_, _)
\* the loop shared by addClause and addTemporaryClause: a variable without an activity
\* entry gets one, and decision_levels grows to hold it
TouchVars(s, lits) ==
    IF lits = <<>> THEN s
    ELSE LET var == Abs(Head(lits))
         IN IF var \in DOMAIN s.activity THEN TouchVars(s, Tail(lits))
            ELSE TouchVars([s EXCEPT !.activity = MapPut(@, var, 0),
                                     !.dl_size = IF var >= @ THEN var + 1 ELSE @,
                                     !.decision_levels =
                                        [i \in DOMAIN @ |-> IF i >= s.dl_size /\ i <= var THEN 0 ELSE @[i]]],
                           Tail(lits))

\* the UNSAT-core loop of solve: the assumptions whose negation is in the learned clause
\* and whose variable is on the trail at level 0 as a decision
ExtractCore(s, learned) ==
    SelectSeq(s.assumptions,
              LAMBDA a : /\ InSeq(-a, learned)
                         /\ Abs(a) \in DOMAIN s.var_to_trail
                         /\ s.trail[s.var_to_trail[Abs(a)] + 1].decision_level = 0
                         /\ s.trail[s.var_to_trail[Abs(a)] + 1].is_decision)

\* the index pairs i < j the nested loops would stop at if the test were lit1 == lit2
EqualPairs(A) ==
    {p \in (1..Len(A)) \X (1..Len(A)) : p[1] < p[2] /\ A[p[1]] = A[p[2]]}

\* the index pairs i < j of an assumption list with lit1 == -lit2
ContradictoryPairs(A) ==
    {p \in (1..Len(A)) \X (1..Len(A)) : p[1] < p[2] /\ A[p[1]] = -A[p[2]]}

\* the pair the nested loops of solve(assume) reach first: the least i, then the least j
FirstContradictoryPair(A) ==
    CHOOSE p \in ContradictoryPairs(A) :
        \A q \in ContradictoryPairs(A) : p[1] < q[1] \/ (p[1] = q[1] /\ p[2] <= q[2])

RECURSIVE ApplyAssumptions(_, _)
\* the loop of solve(assume) that puts the assumptions on the trail at level 0; m.ok
\* turns FALSE when an assumption contradicts an earlier one (core = {lit})
ApplyAssumptions(m, k) ==
    IF k > Len(m.s.assumptions) THEN m
    ELSE LET lit == m.s.assumptions[k]
             var == Abs(lit)
         IN IF var \in DOMAIN m.s.assignments /\ m.s.assignments[var] # (lit > 0)
            THEN [m EXCEPT !.s.core = <<lit>>, !.ok = FALSE]
            ELSE ApplyAssumptions(Enqueue(m, lit, 0, NoAntecedent, TRUE), k + 1)

\* what solve handed to addLearnedClause: the clause, the decision level of the conflict,
\* the level at which the variable of each literal was on the trail at that moment (-1:
\* not on the trail), the level analyzeConflict returned, the clause analyzeConflict had
\* produced (input) and whether every literal of it that is missing in the handed clause
\* was redundant; NoHanded when nothing was
NoHanded == [clause |-> <<>>, level |-> -1, levels |-> <<>>, bt |-> 0, input |-> <<>>, justified |-> TRUE]

NewM(s, tb) ==
    [ s |-> s, tb |-> tb, to |-> FALSE, ub |-> FALSE, crash |-> FALSE, ok |-> TRUE,
      learned |-> <<>>, analyzed |-> <<>>, bt |-> 0, tc |-> 0, handed |-> NoHanded,
      bk |-> [ok |-> TRUE, cut |-> FALSE], up |-> [ret |-> "none", ok |-> TRUE] ]

\* the locals of solve(assume) declared before its main loop
FreshLocals ==
    [ iterations |-> 0, last_conflict_count |-> 0, last_decision_count |-> 0,
      last_propagation_count |-> 0, last_restart_count |-> 0, no_progress_count |-> 0,
      last_learned_clause_size |-> 0, consecutive_restarts |-> 0, last_decision_level |-> 0,
      stuck_at_level_count |-> 0, expired |-> FALSE ]

\* trail[var_to_trail[var]].decision_level, -1 for a variable that is not on the trail
TrailLevel(s, var) ==
    IF var \in DOMAIN s.var_to_trail THEN s.trail[s.var_to_trail[var] + 1].decision_level ELSE -1

RECURSIVE Redundant(_, _, _, _)
\* lit is redundant in clause: its variable is on the trail with an antecedent clause, every
\* literal of which other than lit is the negation of a literal of clause or is redundant
\* by the same rule (fuel bounds the depth of the rule by the length of the trail)
Redundant(s, lit, clause, fuel) ==
    /\ Abs(lit) \in DOMAIN s.var_to_trail
    /\ ~s.trail[s.var_to_trail[Abs(lit)] + 1].is_decision
    /\ ValidClause(s, s.trail[s.var_to_trail[Abs(lit)] + 1].antecedent_id)
    /\ LET reason == s.db.clauses[s.trail[s.var_to_trail[Abs(lit)] + 1].antecedent_id + 1].literals
       IN \A k \in 1..Len(reason) :
             \/ Abs(reason[k]) = Abs(lit)
             \/ InSeq(-reason[k], clause)
             \/ (fuel > 0 /\ Redundant(s, reason[k], clause, fuel - 1))

\* learn m.learned: computeLBD, addLearnedClause
Learn(m) ==
    [m EXCEPT !.s.db = DbAddLearnedClause(@, m.learned,
                          DbComputeLBD(m.learned, m.s.decision_levels, m.s.dl_size)),
              !.handed = [clause |-> m.learned, level |-> m.s.decision_level,
                          levels |-> [k \in 1..Len(m.learned) |-> TrailLevel(m.s, Abs(m.learned[k]))],
                          bt |-> m.bt, input |-> m.analyzed,
                          justified |-> \A k \in 1..Len(m.analyzed) :
                                           \/ InSeq(m.analyzed[k], m.learned)
                                           \/ Redundant(m.s, m.analyzed[k], m.analyzed, Len(m.s.trail))]]

\* solve(assume) after the conflict of the initial unit propagation was analyzed: the
\* learned clause is stored, its variables bumped and the core extracted
InitialConflict(m3) ==
    IF m3.crash THEN [m |-> m3, out |-> "false"]
    ELSE [ m |-> [Learn([m3 EXCEPT !.analyzed = m3.learned]) EXCEPT !.s.activity = BumpAll(@, m3.learned),
                                   !.s.core = ExtractCore(m3.s, m3.learned)],
           out |-> "false" ]

\* solve(assume) after the initial unitPropagate()
InitialPropagated(m2) ==
    IF m2.ok
    THEN [m |-> [m2 EXCEPT !.s.stuck_counter = 0, !.up = [ret |-> "true", ok |-> Stable(m2.s)]],
          out |-> "loop"]
    ELSE InitialConflict(AnalyzeConflict([m2 EXCEPT !.s.conflicts = @ + 1], m2.s.conflict_clause_id))

\* solve(assume) after the assumptions were put on the trail
AssumptionsApplied(m1) ==
    IF ~m1.ok THEN [m |-> m1, out |-> "false"]
    ELSE InitialPropagated(UnitPropagate(m1))

\* solve(assume) up to its main loop; out is "false" when the call returns false there
SolveStart(s0, assume, tb) ==
    IF ContradictoryPairs(assume) # {}
    THEN [ m |-> NewM([s0 EXCEPT !.assumptions = assume,
                                 !.core = << assume[FirstContradictoryPair(assume)[1]],
                                             assume[FirstContradictoryPair(assume)[2]] >>], tb),
           out |-> "false" ]
    ELSE AssumptionsApplied(
           ApplyAssumptions(
             NewM([s0 EXCEPT !.assumptions = assume,
                             !.trail = <<>>,
                             !.var_to_trail = EmptyMap,
                             !.assignments = EmptyMap,
                             !.decision_levels = [i \in DOMAIN @ |-> IF i < s0.dl_size THEN 0 ELSE @[i]],
                             !.decision_level = 0,
                             !.conflicts_since_restart = 0,
                             !.db = DbInitWatches(@)], tb),
             1))

\* the stuck detection at the head of an iteration of the main loop; stop says that
\* solve returns false there
ProgressDetection(m, l) ==
    LET s == m.s
        any4 == \/ s.conflicts > l.last_conflict_count
                \/ s.decisions > l.last_decision_count
                \/ s.propagations > l.last_propagation_count
                \/ s.db.active_learned > l.last_learned_clause_size
        deeper == s.decision_level > l.last_decision_level
        same == s.decision_level = l.last_decision_level
        restarted == s.restarts > l.last_restart_count
        progress == any4 \/ deeper \/ restarted
        zero == any4 \/ deeper \/ restarted
        sc1 == IF zero THEN 0 ELSE s.stuck_counter
        np1 == IF zero THEN 0 ELSE l.no_progress_count
        cr0 == IF any4 \/ deeper THEN 0 ELSE l.consecutive_restarts
        cr1 == IF restarted THEN cr0 + 1 ELSE cr0
        sl0 == IF any4 THEN 0 ELSE l.stuck_at_level_count
        sl1 == IF restarted \/ deeper THEN 0 ELSE IF same THEN sl0 + 1 ELSE sl0
        l1 == [l EXCEPT !.last_conflict_count = s.conflicts,
                        !.last_decision_count = s.decisions,
                        !.last_propagation_count = s.propagations,
                        !.last_restart_count = s.restarts,
                        !.last_learned_clause_size = s.db.active_learned,
                        !.last_decision_level = s.decision_level]
        \* if (!progress) { ... }
        sc2 == sc1 + 1
        np2 == np1 + 1
        force == sc2 > StuckRestartLimit
        clear == force /\ cr1 > ConsecutiveRestartLimit
        mA == IF clear
              THEN [m EXCEPT !.s = InitializeVSIDS([s EXCEPT !.db = DbClearLearnedClauses(@)])]
              ELSE IF force THEN Restart(m) ELSE m
        cr2 == IF clear THEN 0 ELSE cr1
        sc3 == IF force THEN 0 ELSE sc2
        mB == IF sl1 > StuckAtLevelLimit THEN Backtracked(mA, Max(0, mA.s.decision_level - 1)) ELSE mA
        sl2 == IF sl1 > StuckAtLevelLimit THEN 0 ELSE sl1
    IN IF progress
       THEN [ m |-> [m EXCEPT !.s.stuck_counter = sc1],
              l |-> [l1 EXCEPT !.no_progress_count = np1, !.consecutive_restarts = cr1,
                               !.stuck_at_level_count = sl1],
              stop |-> FALSE ]
       ELSE [ m |-> [mB EXCEPT !.s.stuck_counter = sc3],
              l |-> [l1 EXCEPT !.no_progress_count = np2, !.consecutive_restarts = cr2,
                               !.stuck_at_level_count = sl2],
              stop |-> np2 > NoProgressLimit ]

\* the main loop after minimizeClause: the clause is stored, the solver backtracks to the
\* level analyzeConflict returned and the variables of the clause are bumped
LearnAndBacktrack(mm, l) ==
    [ m |-> [Backtracked(Learn(mm), mm.bt) EXCEPT !.s.activity = BumpAll(@, mm.learned)],
      l |-> l, out |-> "next" ]

\* the main loop after analyzeConflict; level is the decision level of the conflict
ConflictAnalyzed(ma, level, l, lt) ==
    IF ma.crash THEN [m |-> ma, l |-> l, out |-> "dead"]
    ELSE IF level = 0
    THEN [m |-> [ma EXCEPT !.s.core = ExtractCore(ma.s, ma.learned)], l |-> l, out |-> "false"]
    ELSE IF PollFires(ma) THEN [m |-> Polled(ma), l |-> l, out |-> "false"]
    ELSE LearnAndBacktrack(MinimizeClause([Polled(ma) EXCEPT !.analyzed = ma.learned], lt), l)

\* the main loop at "if (!unitPropagate())" with the conflict counters incremented
HandleConflict(mc, l, lt) ==
    ConflictAnalyzed(AnalyzeConflict(mc, mc.s.conflict_clause_id), mc.s.decision_level, l, lt)

\* the main loop after unitPropagate()
Propagated(mp, l, lt) ==
    IF mp.ok
    THEN [m |-> [mp EXCEPT !.up = [ret |-> "true", ok |-> Stable(mp.s)]], l |-> l, out |-> "decide"]
    ELSE HandleConflict([mp EXCEPT !.s.conflicts = @ + 1, !.s.conflicts_since_restart = @ + 1], l, lt)

\* the main loop after the progress detection: restart if due, then propagate
ProgressChecked(pd, lt) ==
    IF pd.stop THEN [m |-> pd.m, l |-> pd.l, out |-> "false"]
    ELSE IF ShouldRestartDiverges(pd.m.s) THEN [m |-> pd.m, l |-> pd.l, out |-> "dead"]
    ELSE Propagated(UnitPropagate(IF ShouldRestart(pd.m.s) THEN Restart(pd.m) ELSE pd.m), pd.l, lt)

\* one iteration of the main loop of solve up to the point where it either returns
\* false ("false"), never returns ("dead"), goes on to makeDecision ("decide") or to the
\* next iteration after learning a clause ("next")
IterBody(m, l, lt) ==
    IF PollFires(m) THEN [m |-> Polled(m), l |-> [l EXCEPT !.iterations = @ + 1], out |-> "false"]
    ELSE ProgressChecked(ProgressDetection(Polled(m), [l EXCEPT !.iterations = @ + 1]), lt)

\* selectVarVSIDS: the random branch has positive probability in every regime, so any
\* unassigned variable of 1..num_variables can be returned; 0 is returned when there is none
DecisionCandidates(s) == {v \in 1..s.db.num_variables : v \notin DOMAIN s.assignments}

RECURSIVE CountOcc(_, _)
\* the number of literals equal to lit in the live clauses
CountOcc(lits, lit) ==
    IF lits = <<>> THEN 0
    ELSE (IF Head(lits) = lit THEN 1 ELSE 0) + CountOcc(Tail(lits), lit)

\* the values makeDecision can give to var.  ratio = getNumClauses() / getNumVariables();
\* the tests on the score use the lower bound the model keeps, so a score at or above a
\* threshold with a smaller bound admits both values
PolarityChoices(s, var) ==
    LET nc == DbNumClauses(s.db)
        nv == s.db.num_variables
        all == Flatten(s.db.clauses)
        balanced == CountOcc(all, var) >= CountOcc(all, -var)
        act == IF var \in DOMAIN s.activity THEN s.activity[var] ELSE 0
        strong == IF act > 0 THEN TRUE ELSE balanced
        coin(limit) == IF act >= limit THEN {TRUE} ELSE {TRUE, FALSE}
    IN IF nc >= 4 * nv /\ 2 * nc <= 9 * nv THEN coin(5) \cup {strong}
       ELSE IF 2 * nc > 9 * nv THEN coin(4) \cup {(act > 0) = balanced}
       ELSE IF s.stuck_counter > 0 THEN coin(10)
       ELSE {strong}

\* the part of makeDecision after a variable was selected
MakeDecision(m, var, value) ==
    LET m1 == [m EXCEPT !.s.decision_level = @ + 1, !.s.decisions = @ + 1]
    IN Enqueue(m1, IF value THEN var ELSE -var, m1.s.decision_level, NoAntecedent, TRUE)

(***************************************************************************)
(* Inputs of the API calls.                                                *)
(***************************************************************************)
Lits(n) == {x \in (-n)..n : x # 0}

RECURSIVE SeqsUpTo(_, _)
\* the sequences over S of length at most n
SeqsUpTo(S, n) ==
    IF n = 0 THEN {<<>>}
    ELSE LET shorter == SeqsUpTo(S, n - 1)
         IN shorter \cup {Append(q, x) : q \in shorter, x \in S}

\* a clause names each variable at most once
WellFormed(c) == \A i, j \in 1..Len(c) : i # j => Abs(c[i]) # Abs(c[j])

ClausesOver(n, len) == {c \in SeqsUpTo(Lits(Min(n, MaxInputVar)), len) : WellFormed(c)}

ClauseInputs(n) == ClausesOver(n, MaxClauseLen)

AssumeInputs(n) == SeqsUpTo(Lits(Min(n, MaxAssumeVar)), MaxAssume)

\* the formulas of a single variable pair the callers of this repository start from
SmallFormulas ==
    { << <<1>>, <<-1>> >>,
      << <<-1, 2>>, <<-2>> >> }

InitFormulas == SeqsUpTo(ClausesOver(MaxInputVar, MaxInitClauseLen), MaxInitClauses) \cup SmallFormulas

\* larger formulas, each solved once under either restart strategy
SearchFormulas ==
    { << <<1, 2>>, <<-1, 3>>, <<-2, -3>> >>,
      << <<1, 2>>, <<-1, 3>> >>,
      << <<-1, 2>>, <<-2, -3, 4>>, <<-2, -3, -4>>, <<3, 2>>, <<3, -2, 4>>, <<3, -2, -4>> >> }

SearchAssumptions(n) ==
    {A \in { <<>>, <<1, -3>>, <<1, 2, 3>> } : \A i \in 1..Len(A) : Abs(A[i]) <= n}

Thresholds == {1, 2}

TimeBudgets == (0..MaxPollBudget) \cup {NoExpiry}

(***************************************************************************)
(* The solver and its caller.                                              *)
(***************************************************************************)
NoReturn == [op |-> "none", sat |-> FALSE, var |-> 0]

InitHist ==
    [ ops        |-> 0,          \* API calls made
      adds       |-> 0,          \* calls of addClause and addTemporaryClause
      configs    |-> 0,          \* calls of setAssumptions and setRestartStrategy
      solves     |-> 0,          \* calls of solve
      newvars    |-> 0,          \* calls of newVariable
      lastA      |-> <<>>,       \* the assumptions the last solve was asked to run under
      noarg      |-> FALSE,      \* the last solve was the no-argument solve()
      afterSet   |-> FALSE,      \* ... and setAssumptions had been called since the solve before
      pending    |-> FALSE,      \* setAssumptions was called and no solve has run since
      timedOut   |-> FALSE,      \* a checkTimeout() poll of the last solve answered true
      tempSolves |-> -1,         \* solves returned since the last addTemporaryClause (-1: none added)
      temp       |-> <<>>,       \* the clause of the last addTemporaryClause
      allIds     |-> {},         \* what the calls of newVariable returned
      nvBefore   |-> 0,          \* getNumVars() at the last call of newVariable
      handed     |-> NoHanded,   \* what the last step of solve handed to addLearnedClause
      bk         |-> [ok |-> TRUE, cut |-> FALSE],  \* the calls of backtrack of that step
      up         |-> [ret |-> "none", ok |-> TRUE], \* what its unitPropagate() returned and
                                                   \* whether the solver was as it has to be then
      oldIds     |-> {} ]        \* what earlier calls of newVariable returned

\* a worker thread that has not been launched; luby_index is the one of its solver while
\* solve() runs (nothing reads it once solve() has returned)
IdleWorker ==
    [pc |-> "idle", result |-> "none", assignment |-> EmptyMap, need_termination |-> FALSE,
     luby_index |-> 1]

\* PortfolioManager::estimateMemoryUsage
EstimateMemoryUsage(formula) ==
    BaseMemory + (Len(formula) * ClauseMemory) + (MaxVar(Concat(formula)) * VarMemory)

\* PortfolioManager::PortfolioManager: the cap on the solvers that run concurrently
MaxConcurrentSolvers(formula, num_threads) ==
    LET memory_based_max == Max(1, SystemAvailableMemory \div EstimateMemoryUsage(formula))
    IN Min(Max(1, num_threads), memory_based_max)

\* PortfolioManager::PortfolioManager; result_mutex holds the id of the thread that has it:
\* a worker's id, NumConfigs for the thread that called solve, -1 when it is free
NewPortfolio(formula, num_threads) ==
    [ solution_found          |-> FALSE,
      global_timeout          |-> FALSE,
      best_solution           |-> EmptyMap,
      winning_solver_id       |-> -1,
      max_concurrent_solvers  |-> MaxConcurrentSolvers(formula, num_threads),
      active_solvers          |-> 0,
      initialization_complete |-> FALSE,
      result_mutex            |-> -1,
      termination_reason      |-> [i \in 0..(NumConfigs - 1) |-> -1],
      returned                |-> "none",
      calls                   |-> 0 ]

PortfolioIdle(formula, num_threads) ==
    /\ pm = NewPortfolio(formula, num_threads)
    /\ workers = [i \in 0..(NumConfigs - 1) |-> IdleWorker]
    /\ monitor = "none"
    /\ mgr = [pc |-> "idle", next |-> 0]

InitFrom(formulas, thread_counts) ==
    /\ \E f \in formulas, num_threads \in thread_counts :
          /\ solver = NewSolver(f)
          /\ PortfolioIdle(f, num_threads)
    /\ pc = "idle"
    /\ loc = FreshLocals
    /\ ret = NoReturn
    /\ hist = InitHist

Init == InitFrom(InitFormulas, {NumConfigs})

CanCall == pc = "idle" /\ hist.ops < MaxOps
CanAdd == CanCall /\ hist.adds < MaxAdds
CanConfigure == CanCall /\ hist.configs < MaxConfigs
CanSolve == CanCall /\ hist.solves < MaxSolves

\* CDCLSolverIncremental::addClause(clause)
AddClause(c) ==
    /\ CanAdd
    /\ solver' = TouchVars([solver EXCEPT !.db = DbAddClause(@, c)], c)
    /\ ret' = NoReturn
    /\ hist' = [hist EXCEPT !.ops = @ + 1, !.adds = @ + 1]
    /\ UNCHANGED <<pc, loc>>

\* CDCLSolverIncremental::addTemporaryClause(clause)
AddTemporaryClause(c) ==
    /\ CanAdd
    /\ LET id == Len(solver.db.clauses)
           db1 == DbAddClause(solver.db, c)
       IN solver' = TouchVars([solver EXCEPT !.db = [db1 EXCEPT !.clauses[id + 1].is_core = FALSE]], c)
    /\ ret' = NoReturn
    /\ hist' = [hist EXCEPT !.ops = @ + 1, !.adds = @ + 1, !.tempSolves = 0, !.temp = c]
    /\ UNCHANGED <<pc, loc>>

\* CDCLSolverIncremental::setAssumptions(assume)
SetAssumptions(A) ==
    /\ CanConfigure
    /\ solver' = [solver EXCEPT !.assumptions = A]
    /\ ret' = NoReturn
    /\ hist' = [hist EXCEPT !.ops = @ + 1, !.configs = @ + 1, !.pending = TRUE]
    /\ UNCHANGED <<pc, loc>>

\* CDCLSolverIncremental::setRestartStrategy(use_luby, init_threshold)
SetRestartStrategy(use_luby, init_threshold) ==
    /\ CanConfigure
    /\ solver' = [solver EXCEPT !.use_luby_restarts = use_luby,
                                !.restart_threshold = init_threshold,
                                !.luby_index = 1]
    /\ ret' = NoReturn
    /\ hist' = [hist EXCEPT !.ops = @ + 1, !.configs = @ + 1]
    /\ UNCHANGED <<pc, loc>>

\* CDCLSolverIncremental::setMaxLearnts
SetMaxLearnts(max_learnts) ==
    /\ CanConfigure
    /\ solver' = [solver EXCEPT !.db.max_learnt_clauses = max_learnts]
    /\ ret' = NoReturn
    /\ hist' = [hist EXCEPT !.ops = @ + 1, !.configs = @ + 1]
    /\ UNCHANGED <<pc, loc>>

\* CDCLSolverIncremental::newVariable
NewVariable ==
    /\ CanCall
    /\ hist.newvars < MaxNewVars
    /\ LET new_var == solver.db.num_variables
       IN /\ solver' = [solver EXCEPT
                          !.activity = MapPut(@, new_var, 0),
                          !.dl_size = IF new_var >= @ THEN new_var + 1 ELSE @,
                          !.decision_levels =
                              [i \in DOMAIN @ |-> IF i >= solver.dl_size /\ i <= new_var THEN 0 ELSE @[i]],
                          !.db = DbAddVariable(@)]
          /\ ret' = [op |-> "newVariable", sat |-> FALSE, var |-> new_var]
          /\ hist' = [hist EXCEPT !.ops = @ + 1, !.newvars = @ + 1,
                                  !.nvBefore = solver.db.num_variables,
                                  !.oldIds = hist.allIds,
                                  !.allIds = @ \cup {new_var}]
    /\ UNCHANGED <<pc, loc>>

\* the end of a step of solve: m is the machine after the step, out what the step came to
\* ("true"/"false": solve returns; "loop"/"next": the main loop goes on; "dead": the call
\* never returns).  An out-of-bounds access of decision_levels either kills the process
\* or goes unnoticed with the cell behind the vector behaving as memory
Step(m, l, out, h) ==
    \E crashed \in (IF m.crash \/ out = "dead" THEN {TRUE}
                    ELSE IF m.ub THEN {TRUE, FALSE} ELSE {FALSE}) :
        IF crashed
        THEN /\ pc' = "dead"
             /\ loc' = FreshLocals
             /\ ret' = NoReturn
             /\ hist' = h
             /\ solver' = solver
        ELSE IF out \in {"loop", "next"}
        THEN /\ pc' = "loop"
             /\ loc' = [l EXCEPT !.expired = @ \/ m.to]
             /\ ret' = NoReturn
             /\ hist' = [h EXCEPT !.timedOut = @ \/ m.to, !.handed = m.handed, !.bk = m.bk, !.up = m.up]
             /\ solver' = m.s
        ELSE /\ pc' = "idle"
             /\ loc' = FreshLocals
             /\ ret' = [op |-> "solve", sat |-> (out = "true"), var |-> 0]
             /\ hist' = [h EXCEPT !.timedOut = @ \/ m.to, !.handed = m.handed, !.bk = m.bk, !.up = m.up,
                                  !.tempSolves = IF @ >= 0 THEN @ + 1 ELSE @]
             /\ solver' = m.s

\* CDCLSolverIncremental::solve(assume) from its entry to the head of the main loop
Solve(A) ==
    /\ CanSolve
    /\ \E tb \in TimeBudgets :
        \E r \in {SolveStart(solver, A, tb)} :
           Step(r.m, FreshLocals, r.out,
                [hist EXCEPT !.ops = @ + 1, !.solves = @ + 1, !.lastA = A, !.noarg = FALSE,
                             !.afterSet = FALSE,
                             !.pending = FALSE, !.timedOut = FALSE])

\* CDCLSolverIncremental::solve(): clearAssumptions(); return solve(assumptions);
SolveNoArg ==
    /\ CanSolve
    /\ \E tb \in TimeBudgets :
        \E r \in {SolveStart([solver EXCEPT !.assumptions = <<>>], <<>>, tb)} :
           Step(r.m, FreshLocals, r.out,
                [hist EXCEPT !.ops = @ + 1, !.solves = @ + 1, !.lastA = solver.assumptions, !.noarg = TRUE,
                             !.afterSet = hist.pending,
                             !.pending = FALSE, !.timedOut = FALSE])

\* one iteration of the main loop of solve(assume)
LoopIteration ==
    /\ pc = "loop"
    /\ loc.iterations < MaxIter
    /\ \E tb \in (IF loc.expired THEN {0} ELSE TimeBudgets), lt \in BOOLEAN :
        \E r \in {IterBody(NewM(solver, tb), loc, lt)} :
           IF r.out = "decide"
           THEN IF DecisionCandidates(r.m.s) = {}
                THEN Step(r.m, r.l, "true", hist)
                ELSE \E var \in DecisionCandidates(r.m.s) :
                       \E value \in PolarityChoices(r.m.s, var) :
                         Step(MakeDecision(r.m, var, value), r.l, "next", hist)
           ELSE Step(r.m, r.l, r.out, hist)

Next ==
    \/ (\E c \in ClauseInputs(solver.db.num_variables) : AddClause(c)) /\ UNCHANGED portfolioVars
    \/ (\E c \in ClauseInputs(solver.db.num_variables) : AddTemporaryClause(c)) /\ UNCHANGED portfolioVars
    \/ (\E A \in AssumeInputs(solver.db.num_variables) : SetAssumptions(A)) /\ UNCHANGED portfolioVars
    \/ NewVariable /\ UNCHANGED portfolioVars
    \/ (\E A \in AssumeInputs(solver.db.num_variables) : Solve(A)) /\ UNCHANGED portfolioVars
    \/ SolveNoArg /\ UNCHANGED portfolioVars
    \/ LoopIteration /\ UNCHANGED portfolioVars

Spec == Init /\ [][Next]_vars

(***************************************************************************)
(* One solve of a larger formula, after an optional setRestartStrategy.    *)
(***************************************************************************)
SearchInit == InitFrom(SearchFormulas, {NumConfigs})

SearchNext ==
    \/ /\ hist.ops = 0
       /\ \E b \in BOOLEAN, t \in Thresholds : SetRestartStrategy(b, t)
       /\ UNCHANGED portfolioVars
    \/ /\ hist.solves < SearchSolves
       /\ \E A \in SearchAssumptions(solver.db.num_variables) : Solve(A)
       /\ UNCHANGED portfolioVars
    \/ LoopIteration /\ UNCHANGED portfolioVars

SearchSpec == SearchInit /\ [][SearchNext]_vars

(***************************************************************************)
(* One solve of a formula that learns, after an optional setMaxLearnts.    *)
(***************************************************************************)
CapNext ==
    \/ /\ hist.ops = 0
       /\ \E max_learnts \in 0..MaxLearntsCap : SetMaxLearnts(max_learnts)
       /\ UNCHANGED portfolioVars
    \/ /\ hist.solves < SearchSolves
       /\ \E A \in SearchAssumptions(solver.db.num_variables) : Solve(A)
       /\ UNCHANGED portfolioVars
    \/ LoopIteration /\ UNCHANGED portfolioVars

\* the formula is one whose first conflict needs three decisions and whose second leaves
\* the first two of them in place
CapSpec ==
    /\ InitFrom({ << <<-1, -2, -3, 4>>, <<-1, -2, -3, -4>>, <<-2, -4, 5>>, <<-4, -5>> >> }, {NumConfigs})
    /\ [][CapNext]_vars

(***************************************************************************)
(* The portfolio: PortfolioManager::solve launches the monitor thread and  *)
(* one worker thread per preset, joins them and returns solution_found.    *)
(* A worker's CDCLSolverIncremental::solve() is an input here: it returns  *)
(* false, or true with some assignment of the formula's variables.         *)
(***************************************************************************)
WorkerIds == 0..(NumConfigs - 1)

WorkerModels == [1..MaxPortfolioVar -> BOOLEAN]

ResultMutexFree == pm.result_mutex = -1

\* PortfolioManager::solve: the reset of the shared state under result_mutex
MgrReset ==
    /\ mgr.pc = "idle"
    /\ pm.calls < MaxPortfolioSolves
    /\ ResultMutexFree
    /\ pm' = [pm EXCEPT !.solution_found = FALSE,
                        !.winning_solver_id = -1,
                        !.active_solvers = 0,
                        !.initialization_complete = FALSE,
                        !.returned = "none",
                        !.calls = @ + 1]
    /\ mgr' = [pc |-> "launch_monitor", next |-> 0]
    /\ UNCHANGED <<workers, monitor>>

\* PortfolioManager::solve: monitor_thread = std::thread(&monitorThread, this)
MgrLaunchMonitor ==
    /\ mgr.pc = "launch_monitor"
    /\ monitor' = "running"
    /\ mgr' = [mgr EXCEPT !.pc = "launch"]
    /\ UNCHANGED <<pm, workers>>

\* PortfolioManager::solve: one round of the loop that emplaces the solver threads
MgrLaunchWorker ==
    /\ mgr.pc = "launch"
    /\ mgr.next < NumConfigs
    /\ workers' = [workers EXCEPT ![mgr.next] = [IdleWorker EXCEPT !.pc = "solving"]]
    /\ mgr' = [mgr EXCEPT !.next = @ + 1]
    /\ UNCHANGED <<pm, monitor>>

\* PortfolioManager::solve: every solver thread is joined; active_solvers = 0 under result_mutex
MgrJoinWorkers ==
    /\ mgr.pc = "launch"
    /\ mgr.next = NumConfigs
    /\ \A i \in WorkerIds : workers[i].pc = "done"
    /\ ResultMutexFree
    /\ pm' = [pm EXCEPT !.active_solvers = 0]
    /\ mgr' = [mgr EXCEPT !.pc = "join_monitor"]
    /\ UNCHANGED <<workers, monitor>>

\* PortfolioManager::solve: the monitor thread is joined, the thread vector cleared and
\* solution_found returned
MgrReturn ==
    /\ mgr.pc = "join_monitor"
    /\ monitor \in {"done", "timed_out"}
    /\ pm' = [pm EXCEPT !.returned = IF pm.solution_found THEN "true" ELSE "false"]
    /\ mgr' = [pc |-> "idle", next |-> 0]
    /\ monitor' = "none"
    /\ UNCHANGED workers

\* PortfolioManager::initializeConfigs: use_luby_restarts of preset config_id
UseLubyRestarts(config_id) == config_id \in {0, 1}

\* shouldRestart of worker i's solver does not return: lubySequence recurses without end
WorkerDiverges(i) == UseLubyRestarts(i) /\ LubySequence(workers[i].luby_index) = LubyDiverges

\* the checkTimeout() poll at the head of the main loop of the worker's solve(): it
\* answers true when the solver's own timeout has expired or solution_found is set
WorkerCheckTimeout(i, expired) ==
    /\ workers[i].pc = "solving"
    /\ workers' = IF expired \/ pm.solution_found
                  THEN [workers EXCEPT ![i].pc = "solved", ![i].result = "false", ![i].luby_index = 1]
                  ELSE [workers EXCEPT ![i].pc = "searching"]
    /\ UNCHANGED <<pm, monitor, mgr>>

\* an iteration of the main loop of the worker's solve() that does not end the search:
\* shouldRestart() either never returns or the loop comes back to its head, after a
\* restart when the conflicts since the last one have reached the limit (due)
WorkerNextIteration(i, due) ==
    /\ workers[i].pc = "searching"
    /\ workers' = IF WorkerDiverges(i)
                  THEN [workers EXCEPT ![i].pc = "diverged"]
                  ELSE [workers EXCEPT ![i].pc = "solving",
                                       ![i].luby_index = IF due /\ UseLubyRestarts(i) THEN @ + 1 ELSE @]
    /\ UNCHANGED <<pm, monitor, mgr>>

\* PortfolioManager::solverThread: bool result = solver.solve(), the search ending in
\* the current iteration of the main loop
WorkerSolveReturns(i, result, a) ==
    /\ workers[i].pc = "searching"
    /\ ~WorkerDiverges(i)
    /\ workers' = [workers EXCEPT ![i].pc = "solved",
                                  ![i].luby_index = 1,
                                  ![i].result = IF result THEN "true" ELSE "false",
                                  ![i].assignment = IF result THEN a ELSE EmptyMap]
    /\ UNCHANGED <<pm, monitor, mgr>>

\* PortfolioManager::solverThread: if (result) { std::lock_guard lock(result_mutex); ...
WorkerLock(i) ==
    /\ workers[i].pc = "solved"
    /\ workers[i].result = "true"
    /\ ResultMutexFree
    /\ pm' = [pm EXCEPT !.result_mutex = i]
    /\ workers' = [workers EXCEPT ![i].pc = "locked"]
    /\ UNCHANGED <<monitor, mgr>>

\* PortfolioManager::solverThread: the writes of the first worker that found a solution,
\* as they would be without the copy of the assignment
RecordFlagOnly(p, id, a) ==
    [p EXCEPT !.solution_found = TRUE,
              !.winning_solver_id = id,
              !.termination_reason[id] = 0]

\* PortfolioManager::solverThread: the writes of the first worker that found a solution
RecordSolution(p, id, a) ==
    [p EXCEPT !.solution_found = TRUE,
              !.best_solution = a,
              !.winning_solver_id = id,
              !.termination_reason[id] = 0]

\* the locked section of solverThread as it would be without the test of solution_found
WorkerRecordUnchecked(i) ==
    /\ workers[i].pc = "locked"
    /\ pm.result_mutex = i
    /\ pm' = [RecordSolution(pm, i, workers[i].assignment) EXCEPT !.result_mutex = -1]
    /\ workers' = [workers EXCEPT ![i].pc = "terminate", ![i].need_termination = TRUE]
    /\ UNCHANGED <<monitor, mgr>>

\* PortfolioManager::solverThread: if (!solution_found) { ... } and the end of the lock's scope
WorkerRecord(i) ==
    /\ workers[i].pc = "locked"
    /\ pm.result_mutex = i
    /\ LET p == IF ~pm.solution_found THEN RecordSolution(pm, i, workers[i].assignment) ELSE pm
       IN pm' = [p EXCEPT !.result_mutex = -1]
    /\ workers' = [workers EXCEPT ![i].pc = "terminate", ![i].need_termination = ~pm.solution_found]
    /\ UNCHANGED <<monitor, mgr>>

\* PortfolioManager::solverThread: a worker whose solve returned false takes no lock
WorkerNoResult(i) ==
    /\ workers[i].pc = "solved"
    /\ workers[i].result = "false"
    /\ workers' = [workers EXCEPT ![i].pc = "terminate"]
    /\ UNCHANGED <<pm, monitor, mgr>>

\* PortfolioManager::terminateAllSolvers
TerminateAllSolvers(p) == [p EXCEPT !.global_timeout = TRUE]

\* PortfolioManager::solverThread: if (need_termination) terminateAllSolvers();
WorkerTerminate(i) ==
    /\ workers[i].pc = "terminate"
    /\ pm' = IF workers[i].need_termination THEN TerminateAllSolvers(pm) ELSE pm
    /\ workers' = [workers EXCEPT ![i].pc = "stats"]
    /\ UNCHANGED <<monitor, mgr>>

\* PortfolioManager::recordStatistics: the new record keeps the stored termination_reason
RecordStatistics(p, id) ==
    [p EXCEPT !.termination_reason[id] = p.termination_reason[id]]

\* PortfolioManager::solverThread: recordStatistics(...) under result_mutex, then
\* active_solvers.fetch_sub(1)
WorkerFinish(i) ==
    /\ workers[i].pc = "stats"
    /\ ResultMutexFree
    /\ pm' = [RecordStatistics(pm, i) EXCEPT !.active_solvers = @ - 1]
    /\ workers' = [workers EXCEPT ![i].pc = "done"]
    /\ UNCHANGED <<monitor, mgr>>

\* PortfolioManager::monitorThread: one round of its loop; elapsed says that the global
\* timeout has passed, tick that more than a millisecond has
MonitorRound(elapsed, tick) ==
    /\ monitor = "running"
    /\ IF pm.solution_found \/ pm.global_timeout
       THEN monitor' = "done" /\ pm' = pm
       ELSE IF elapsed
       THEN monitor' = "timed_out" /\ pm' = TerminateAllSolvers(pm)
       ELSE IF pm.initialization_complete /\ pm.active_solvers = 0
       THEN monitor' = "done" /\ pm' = pm
       ELSE /\ monitor' = monitor
            /\ pm' = [pm EXCEPT !.initialization_complete = @ \/ tick]
    /\ UNCHANGED <<workers, mgr>>

PortfolioInit == InitFrom({<<<<1>>>>}, {NumConfigs})

PortfolioNext ==
    \/ MgrReset /\ UNCHANGED solverVars
    \/ MgrLaunchMonitor /\ UNCHANGED solverVars
    \/ MgrLaunchWorker /\ UNCHANGED solverVars
    \/ MgrJoinWorkers /\ UNCHANGED solverVars
    \/ MgrReturn /\ UNCHANGED solverVars
    \/ (\E i \in WorkerIds, expired \in BOOLEAN : WorkerCheckTimeout(i, expired)) /\ UNCHANGED solverVars
    \/ (\E i \in WorkerIds, result \in BOOLEAN, a \in WorkerModels : WorkerSolveReturns(i, result, a))
          /\ UNCHANGED solverVars
    \/ (\E i \in WorkerIds : WorkerLock(i)) /\ UNCHANGED solverVars
    \/ (\E i \in WorkerIds : WorkerRecord(i)) /\ UNCHANGED solverVars
    \/ (\E i \in WorkerIds : WorkerNoResult(i)) /\ UNCHANGED solverVars
    \/ (\E i \in WorkerIds : WorkerTerminate(i)) /\ UNCHANGED solverVars
    \/ (\E i \in WorkerIds : WorkerFinish(i)) /\ UNCHANGED solverVars
    \/ (\E elapsed \in BOOLEAN, tick \in BOOLEAN : MonitorRound(elapsed, tick)) /\ UNCHANGED solverVars

PortfolioSpec == PortfolioInit /\ [][PortfolioNext]_vars

(***************************************************************************)
(* One call of PortfolioManager::solve with the main loop of every         *)
(* worker's solver, for a manager constructed with a small num_threads.    *)
(***************************************************************************)
ThreadCounts == 1..MaxThreads

PortfolioRunInit == InitFrom({<<<<1>>>>}, ThreadCounts)

MgrStep == MgrLaunchMonitor \/ MgrLaunchWorker \/ MgrJoinWorkers \/ MgrReturn

\* what worker i does after its solve() has returned
WorkerWrapUp(i) ==
    WorkerLock(i) \/ WorkerRecord(i) \/ WorkerNoResult(i) \/ WorkerTerminate(i) \/ WorkerFinish(i)

\* the assignments that satisfy the formula the manager is constructed with, {{1}}
FormulaModels == {a \in WorkerModels : a[1]}

\* what worker i's solver does after the poll at the head of its main loop
WorkerSearch(i) ==
    \/ \E due \in BOOLEAN : WorkerNextIteration(i, due)
    \/ \E result \in BOOLEAN, a \in FormulaModels : WorkerSolveReturns(i, result, a)

PortfolioRunNext ==
    \/ pm.calls < RunSolves /\ MgrReset /\ UNCHANGED solverVars
    \/ MgrStep /\ UNCHANGED solverVars
    \/ (\E i \in WorkerIds, expired \in BOOLEAN : WorkerCheckTimeout(i, expired)) /\ UNCHANGED solverVars
    \/ (\E i \in WorkerIds : WorkerSearch(i)) /\ UNCHANGED solverVars
    \/ (\E i \in WorkerIds : WorkerWrapUp(i)) /\ UNCHANGED solverVars
    \/ (\E elapsed \in BOOLEAN, tick \in BOOLEAN : MonitorRound(elapsed, tick)) /\ UNCHANGED solverVars

\* a step of worker thread i
WorkerStep(i) ==
    (\E expired \in BOOLEAN : WorkerCheckTimeout(i, expired)) \/ WorkerSearch(i) \/ WorkerWrapUp(i)

\* every thread keeps running, and the 30 second timeout of a solver expires at some poll
PortfolioRunFairness ==
    /\ WF_vars(MgrStep /\ UNCHANGED solverVars)
    /\ WF_vars((\E elapsed \in BOOLEAN, tick \in BOOLEAN : MonitorRound(elapsed, tick)) /\ UNCHANGED solverVars)
    /\ \A i \in WorkerIds :
          /\ WF_vars(WorkerStep(i) /\ UNCHANGED solverVars)
          /\ SF_vars(WorkerCheckTimeout(i, TRUE) /\ UNCHANGED solverVars)

PortfolioRunSpec == PortfolioRunInit /\ [][PortfolioRunNext]_vars /\ PortfolioRunFairness

(***************************************************************************)
(* A ClauseDatabase used on its own: after the construction from a formula *)
(* its public functions are called in any order.  ret.op names the last    *)
(* call.  The watch migration is the one unitPropagate performs on a       *)
(* clause whose watched literal neg_lit became false: the pair is swapped  *)
(* to bring neg_lit first, then updateWatches(id, neg_lit, l) is called    *)
(* for a literal l outside the pair and watched_lits.first is set to l.    *)
(***************************************************************************)
DbNext ==
    \/ /\ hist.ops < MaxDbOps
       /\ \E c \in { <<-1>>, <<1, -2>>, <<-2, 3, 1>> } :
             solver' = [solver EXCEPT !.db = DbAddClause(@, c)]
       /\ ret' = [NoReturn EXCEPT !.op = "addClause"]
       /\ hist' = [hist EXCEPT !.ops = @ + 1]
       /\ UNCHANGED <<pc, loc, portfolioVars>>
    \/ /\ hist.ops < MaxDbOps
       /\ \E c \in { <<-1>>, <<1, -2>> } :
             solver' = [solver EXCEPT
                          !.db = [DbAddClause(@, c) EXCEPT !.clauses[Len(solver.db.clauses) + 1].is_core = FALSE]]
       /\ ret' = [NoReturn EXCEPT !.op = "addTemporaryClause"]
       /\ hist' = [hist EXCEPT !.ops = @ + 1]
       /\ UNCHANGED <<pc, loc, portfolioVars>>
    \/ /\ hist.ops < MaxDbOps
       /\ \E c \in { <<-1>>, <<1, -2>> }, lbd \in {2, 3} :
             solver' = [solver EXCEPT !.db = DbAddLearnedClause(@, c, lbd)]
       /\ ret' = [NoReturn EXCEPT !.op = "addLearnedClause"]
       /\ hist' = [hist EXCEPT !.ops = @ + 1]
       /\ UNCHANGED <<pc, loc, portfolioVars>>
    \/ /\ hist.ops < MaxDbOps
       /\ \E id \in 0..Len(solver.db.clauses) :
             solver' = [solver EXCEPT !.db = DbRemoveClause(@, id)]
       /\ ret' = [NoReturn EXCEPT !.op = "removeClause"]
       /\ hist' = [hist EXCEPT !.ops = @ + 1]
       /\ UNCHANGED <<pc, loc, portfolioVars>>
    \/ /\ hist.ops < MaxDbOps
       /\ solver' = [solver EXCEPT !.db = DbAddVariable(@)]
       /\ ret' = [NoReturn EXCEPT !.op = "addVariable"]
       /\ hist' = [hist EXCEPT !.ops = @ + 1]
       /\ UNCHANGED <<pc, loc, portfolioVars>>
    \/ /\ hist.ops < MaxDbOps
       /\ solver' = [solver EXCEPT !.db = DbClearLearnedClauses(@)]
       /\ ret' = [NoReturn EXCEPT !.op = "clearLearnedClauses"]
       /\ hist' = [hist EXCEPT !.ops = @ + 1]
       /\ UNCHANGED <<pc, loc, portfolioVars>>
    \/ /\ hist.ops < MaxDbOps
       /\ \E id \in 0..(Len(solver.db.clauses) - 1) :
            \E neg_lit \in {solver.db.clauses[id + 1].w1, solver.db.clauses[id + 1].w2} :
             \E l \in SeqToSet(solver.db.clauses[id + 1].literals)
                         \ {solver.db.clauses[id + 1].w1, solver.db.clauses[id + 1].w2} :
                /\ solver.db.clauses[id + 1].present
                /\ solver' =
                     [solver EXCEPT
                        !.db = [DbUpdateWatches(
                                   [@ EXCEPT !.clauses[id + 1].w1 = neg_lit,
                                             !.clauses[id + 1].w2 =
                                                 IF solver.db.clauses[id + 1].w2 = neg_lit
                                                 THEN solver.db.clauses[id + 1].w1 ELSE @],
                                   id, neg_lit, l)
                                EXCEPT !.clauses[id + 1].w1 = l]]
       /\ ret' = [NoReturn EXCEPT !.op = "updateWatches"]
       /\ hist' = [hist EXCEPT !.ops = @ + 1]
       /\ UNCHANGED <<pc, loc, portfolioVars>>

DbSpec == SearchInit /\ [][DbNext]_vars

(***************************************************************************)
(* What the properties speak about.                                        *)
(***************************************************************************)
\* the literal lists of the live clauses of the database that satisfy pick
ClausesWhere(s, pick(_)) ==
    {s.db.clauses[i].literals : i \in {j \in 1..Len(s.db.clauses) :
                                          s.db.clauses[j].present /\ pick(s.db.clauses[j])}}

\* the permanent clauses: given to the constructor or to addClause
PermanentClauses(s) == ClausesWhere(s, LAMBDA c : c.is_core /\ ~c.is_learned)

\* the clauses the caller has given: permanent and temporary
GivenClauses(s) == ClausesWhere(s, LAMBDA c : ~c.is_learned)

\* the assignment a (a function from variables to BOOLEAN) makes literal l true
Holds(a, l) == IF l > 0 THEN a[l] ELSE ~a[-l]

\* some assignment of the variables 1..n satisfies every clause of cs and every literal of ls
Satisfiable(cs, ls, n) ==
    \E a \in [1..n -> BOOLEAN] :
        /\ \A c \in cs : \E i \in 1..Len(c) : Holds(a, c[i])
        /\ \A l \in ls : Holds(a, l)

\* getAssignments() makes some literal of clause c true
ModelSatisfies(s, c) == \E i \in 1..Len(c) : LitTrue(s.assignments, c[i])

SolveReturned == pc = "idle" /\ ret.op = "solve"
ReturnedTrue == SolveReturned /\ ret.sat
ReturnedFalse == SolveReturned /\ ~ret.sat

(***************************************************************************)
(* C1.  After any sequence of addClause and solve calls, when solve(A)     *)
(* returns true the assignment of getAssignments() satisfies every         *)
(* permanent clause added so far and every literal of A.                   *)
(***************************************************************************)
C1_ModelSatisfiesFormula ==
    ReturnedTrue =>
        /\ \A c \in PermanentClauses(solver) : ModelSatisfies(solver, c)
        /\ \A i \in 1..Len(solver.assumptions) : LitTrue(solver.assignments, solver.assumptions[i])

(***************************************************************************)
(* C2.  If the formula together with the assumptions A is satisfiable and  *)
(* no timeout, external stop or iteration cap ends the call, solve(A) does *)
(* not return false, whichever restart strategy and base threshold are     *)
(* configured.                                                             *)
(***************************************************************************)
C2_NoFalseOnSatisfiable ==
    (ReturnedFalse /\ ~hist.timedOut) =>
        ~Satisfiable(GivenClauses(solver), SeqToSet(solver.assumptions), solver.db.num_variables)

(***************************************************************************)
(* C3.  When solve(A) returns false without a timeout or external stop,    *)
(* the permanent clauses together with the literals of getUnsatCore() are  *)
(* unsatisfiable.                                                          *)
(***************************************************************************)
C3_CoreIsUnsatisfiable ==
    (ReturnedFalse /\ ~hist.timedOut) =>
        ~Satisfiable(PermanentClauses(solver), SeqToSet(solver.core), solver.db.num_variables)

(***************************************************************************)
(* C4.  After the most recent solve(A) returned false, every literal of    *)
(* getUnsatCore() is a literal of A; this also holds when the call was     *)
(* ended by a timeout, an external stop or the iteration cap after an      *)
(* earlier call had produced a core.                                       *)
(***************************************************************************)
C4_CoreWithinAssumptions ==
    ReturnedFalse => \A i \in 1..Len(solver.core) : InSeq(solver.core[i], solver.assumptions)

\* the last call of the API was solve, and it was given the assumption list itself
CalledSolveWith == (pc # "idle" \/ ret.op = "solve") /\ ~hist.noarg /\ hist.solves > 0

\* the list holds some literal together with its negation
HasOpposites(A) == \E i, j \in 1..Len(A) : A[i] = -A[j]

(***************************************************************************)
(* C5.  For every formula and every assumption list that holds a literal   *)
(* v together with -v, solve returns false and getUnsatCore() is exactly   *)
(* that contradictory pair.                                                *)
(***************************************************************************)
C5_ContradictoryAssumptions ==
    (CalledSolveWith /\ HasOpposites(hist.lastA)) =>
        /\ ReturnedFalse
        /\ Len(solver.core) = 2
        /\ solver.core[1] = -solver.core[2]
        /\ InSeq(solver.core[1], hist.lastA) /\ InSeq(solver.core[2], hist.lastA)

C5_Witness ==
    /\ ReturnedFalse /\ ~hist.noarg
    /\ HasOpposites(hist.lastA)
    /\ solver.core = <<hist.lastA[1], hist.lastA[2]>>
    /\ Satisfiable(PermanentClauses(solver), {}, solver.db.num_variables)

(***************************************************************************)
(* C6.  For every formula that contains an empty clause, given at          *)
(* construction or added by addClause, solve returns false with an empty   *)
(* core.                                                                   *)
(***************************************************************************)
C6_EmptyClauseIsUnsat ==
    (SolveReturned /\ ~hist.timedOut /\ <<>> \in PermanentClauses(solver)) =>
        ~ret.sat /\ solver.core = <<>>

(***************************************************************************)
(* C7.  After addTemporaryClause(c) followed by one solve, a second solve  *)
(* gives the status of a solver on F that never received c: when F is      *)
(* satisfiable and F with c is not, the second solve returns true.         *)
(***************************************************************************)
C7_TemporaryClauseForgotten ==
    ( /\ SolveReturned /\ hist.tempSolves = 2 /\ ~hist.timedOut
      /\ solver.assumptions = <<>>
      /\ Satisfiable(PermanentClauses(solver), {}, solver.db.num_variables)
      /\ ~Satisfiable(PermanentClauses(solver) \cup {hist.temp}, {}, solver.db.num_variables) )
    => ret.sat

(***************************************************************************)
(* C8.  After setAssumptions(A) the next no-argument solve() runs under A: *)
(* if it returns true the assignment makes every literal of A true, and if *)
(* F with A is unsatisfiable it returns false.  (Stated for formulas       *)
(* without an empty clause, which solve does not see at all.)              *)
(***************************************************************************)
C8_SolveUsesSetAssumptions ==
    (SolveReturned /\ hist.noarg /\ hist.afterSet /\ ~hist.timedOut /\ <<>> \notin GivenClauses(solver)) =>
        /\ ret.sat => \A i \in 1..Len(hist.lastA) : LitTrue(solver.assignments, hist.lastA[i])
        /\ ~Satisfiable(GivenClauses(solver), SeqToSet(hist.lastA), solver.db.num_variables) => ~ret.sat

(***************************************************************************)
(* C9.  Every call of newVariable returns the number of variables before   *)
(* the call plus one, an identifier distinct from every variable that      *)
(* existed already and from what earlier calls returned.                   *)
(***************************************************************************)
C9_NewVariableIsFresh ==
    (pc = "idle" /\ ret.op = "newVariable") =>
        /\ ret.var = hist.nvBefore + 1
        /\ ret.var \notin 1..hist.nvBefore
        /\ ret.var \notin hist.oldIds

\* the workers whose solve returned true in the current call of PortfolioManager::solve
SatWorkers == {i \in WorkerIds : workers[i].result = "true"}

(***************************************************************************)
(* C10.  In every interleaving of the worker threads and the monitor       *)
(* thread: if some worker's solve returned true, PortfolioManager::solve   *)
(* returns true and getSolution() is the assignment of a worker that       *)
(* returned true.                                                          *)
(***************************************************************************)
C10_PortfolioReturnsSat ==
    (pm.returned # "none" /\ SatWorkers # {}) =>
        /\ pm.returned = "true"
        /\ \E i \in SatWorkers : pm.best_solution = workers[i].assignment

C10_Witness ==
    /\ pm.returned = "true"
    /\ pm.calls = 2
    /\ \E i, j \in SatWorkers : workers[i].assignment # workers[j].assignment
    /\ \E i \in WorkerIds : workers[i].result = "false"
    /\ pm.winning_solver_id # 0

\* the workers whose thread has been launched and has not finished
RunningWorkers == {i \in WorkerIds : workers[i].pc \notin {"idle", "done"}}

\* the workers that have left the locked section of solverThread
PastLock(i) == workers[i].pc \in {"terminate", "stats", "done"}

(***************************************************************************)
(* C11: at most one worker per PortfolioManager::solve call writes         *)
(* best_solution and winning_solver_id: while solution_found stays set no  *)
(* step changes either of them; and whenever solution_found is set and     *)
(* result_mutex is free, best_solution is the assignment of the worker     *)
(* winning_solver_id, which returned SAT.                                  *)
(***************************************************************************)
C11_FirstWinnerOnly ==
    /\ [](pm.solution_found /\ ResultMutexFree =>
            /\ pm.winning_solver_id \in WorkerIds
            /\ workers[pm.winning_solver_id].result = "true"
            /\ pm.best_solution = workers[pm.winning_solver_id].assignment)
    /\ [][pm.solution_found /\ pm'.solution_found =>
            /\ pm'.best_solution = pm.best_solution
            /\ pm'.winning_solver_id = pm.winning_solver_id]_vars

\* a second worker returned SAT with another assignment and has left the locked section
C11_Witness ==
    /\ pm.solution_found
    /\ ResultMutexFree
    /\ pm.calls = 1
    /\ \E j \in WorkerIds :
          /\ j # pm.winning_solver_id
          /\ workers[j].result = "true"
          /\ PastLock(j)
          /\ workers[j].assignment # pm.best_solution

(***************************************************************************)
(* C12: once a worker has set solution_found, the solve of every other     *)
(* worker eventually returns and PortfolioManager::solve eventually        *)
(* returns with every worker thread and the monitor thread joined.         *)
(***************************************************************************)
C12_SolutionStopsPortfolio ==
    pm.solution_found ~> (/\ pm.returned # "none"
                          /\ monitor = "none"
                          /\ \A i \in WorkerIds : workers[i].pc = "done")

(***************************************************************************)
(* C13: after the monitor thread has detected the global timeout and set   *)
(* global_timeout, a worker that reaches its next checkTimeout() poll      *)
(* returns from solve there, and PortfolioManager::solve returns false.    *)
(***************************************************************************)
C13_GlobalTimeoutStopsWorkers ==
    /\ [][\A i \in WorkerIds :
            (monitor = "timed_out" /\ workers[i].pc = "solving" /\ workers'[i].pc # "solving")
                => (workers'[i].pc = "solved" /\ workers'[i].result = "false")]_vars
    /\ []((mgr.pc = "join_monitor" /\ monitor = "timed_out") => ~pm.solution_found)

(***************************************************************************)
(* C14: when PortfolioManager::solve has returned true, exactly one worker *)
(* has termination reason 0 (solution) and every other worker has one of   *)
(* 1 (timeout), 2 (resource) or 3 (external stop); none is left with -1.   *)
(***************************************************************************)
C14_TerminationReasons ==
    pm.returned = "true" =>
        /\ Cardinality({i \in WorkerIds : pm.termination_reason[i] = 0}) = 1
        /\ \A i \in WorkerIds : pm.termination_reason[i] \in {0, 1, 2, 3}

(***************************************************************************)
(* C15: the number of worker threads spawned and running at the same time  *)
(* never exceeds max_concurrent_solvers, the cap computed at construction. *)
(***************************************************************************)
C15_ConcurrencyCap == Cardinality(RunningWorkers) <= pm.max_concurrent_solvers

(***************************************************************************)
(* C16: when a checkTimeout() poll in unitPropagate, in analyzeConflict or *)
(* in the main loop observes the timeout, solve returns false, the clause  *)
(* database has no more clause slots than before and the stored UNSAT core *)
(* is the one from before (nothing is learned from, and no core is         *)
(* extracted for, the interrupted propagation).  The steps it speaks about  *)
(* are those in which a poll answered true for the first time in the call  *)
(* and after which the call is no longer in its main loop (a poll that     *)
(* first answers true inside minimizeClause leaves the call in the loop).  *)
(***************************************************************************)
C16_TimeoutLeavesStateAlone ==
    [][(/\ hist'.timedOut
        /\ ~hist.timedOut \/ hist'.solves # hist.solves
        /\ pc' # "loop") =>
          /\ pc' = "idle"
          /\ ret'.op = "solve"
          /\ ~ret'.sat
          /\ Len(solver'.db.clauses) = Len(solver.db.clauses)
          /\ solver'.core = solver.core]_vars

(***************************************************************************)
(* C17: every clause that solve hands to addLearnedClause has exactly one  *)
(* literal whose variable was assigned at the decision level of the        *)
(* conflict, conflicts at level 0 under several assumptions included.      *)
(* Stated for the solves in which no checkTimeout() poll answered true.    *)
(***************************************************************************)
LiteralsAtConflictLevel == {k \in 1..Len(hist.handed.levels) : hist.handed.levels[k] = hist.handed.level}

C17_OneLiteralAtConflictLevel ==
    (hist.handed.level >= 0 /\ ~hist.timedOut) => Cardinality(LiteralsAtConflictLevel) = 1

(***************************************************************************)
(* C18: for a conflict above level 0 the level analyzeConflict returns is  *)
(* the highest decision level among the literals of the learned clause     *)
(* other than the one at the conflict level (0 if there is none), so that  *)
(* after backtrack to it the learned clause has one unassigned literal and *)
(* all its other literals false.  Stated for the learned clauses with      *)
(* exactly one literal at the conflict level, in solves without timeout.   *)
(***************************************************************************)
SecondHighestLevel ==
    LET other == {hist.handed.levels[k] : k \in 1..Len(hist.handed.levels)} \ {hist.handed.level}
    IN CHOOSE d \in other \cup {0} : \A e \in other : d >= e

\* the solver has just backtracked after learning a clause with one current-level literal
BackjumpedAfterLearning ==
    /\ pc = "loop"
    /\ hist.handed.level > 0
    /\ ~hist.timedOut
    /\ Cardinality(LiteralsAtConflictLevel) = 1

C18_BacktrackLevelMakesUnit ==
    BackjumpedAfterLearning =>
        /\ hist.handed.bt = SecondHighestLevel
        /\ \E k \in 1..Len(hist.handed.clause) :
              /\ Unassigned(solver.assignments, hist.handed.clause[k])
              /\ \A j \in 1..Len(hist.handed.clause) \ {k} :
                    LitTrue(solver.assignments, -hist.handed.clause[j])

(***************************************************************************)
(* C19: after backtrack(d) with d not above the current decision level the *)
(* trail is the prefix of the previous trail made of the entries with a    *)
(* level of at most d, the variables of the removed entries have neither   *)
(* an assignment nor a var_to_trail entry, and decision_level is d.        *)
(***************************************************************************)
C19_BacktrackKeepsPrefix == hist.bk.ok

\* a backtrack removed the upper part of a trail and kept the entries below it
C19_Witness == hist.bk.ok /\ hist.bk.cut /\ pc = "loop"

(***************************************************************************)
(* C20: in every state of a solve the assignment map has an entry for      *)
(* exactly the variables on the trail, and for every trail entry with      *)
(* literal l and level d, assignments[|l|] = (l > 0) and                   *)
(* decision_levels[|l|] = d.                                               *)
(***************************************************************************)
\* solve is in its main loop or has just returned
InSolve == pc = "loop" \/ (pc = "idle" /\ ret.op = "solve")

C23_LubyValues ==
    (solver.use_luby_restarts /\ solver.luby_index \in 1..7) =>
        LubySequence(solver.luby_index) = <<1, 1, 2, 1, 1, 2, 4>>[solver.luby_index]

(***************************************************************************)
(* C21: when unitPropagate returns true, no live non-empty clause of the   *)
(* database has all its literals false, and none has exactly one           *)
(* unassigned literal with all its other literals false.                   *)
(***************************************************************************)
C21_PropagationReachesFixpoint == hist.up.ret = "true" => hist.up.ok

\* unitPropagate returned true after it had propagated a literal above level 0
C21_Witness ==
    /\ hist.up.ret = "true" /\ hist.up.ok
    /\ \E k \in 1..Len(solver.trail) :
          ~solver.trail[k].is_decision /\ solver.trail[k].decision_level > 0

(***************************************************************************)
(* C22: when unitPropagate returns false and solve goes on to analyze      *)
(* conflict_clause_id, that id names a live clause all of whose literals   *)
(* are false under the current assignment.  Stated for the solves in       *)
(* which no checkTimeout() poll answered true.                             *)
(***************************************************************************)
C22_ConflictClauseIsFalsified == (hist.up.ret = "false" /\ ~hist.timedOut) => hist.up.ok

(***************************************************************************)
(* C29: in every state of a solve no trail entry carries literal 0 and     *)
(* variable 0 has no assignment: propagating over the watch list of a unit *)
(* clause, whose second watched slot is 0, never enqueues 0.               *)
(***************************************************************************)
C29_ZeroNeverOnTrail ==
    InSolve =>
        /\ \A k \in 1..Len(solver.trail) : solver.trail[k].literal # 0
        /\ 0 \notin DOMAIN solver.assignments

(***************************************************************************)
(* C24: a call of clearLearnedClauses leaves as live clauses exactly the   *)
(* core clauses that were live before it, with their literals, and no      *)
(* non-core clause, in whatever order the clauses had been inserted.       *)
(***************************************************************************)
C24_ClearKeepsCoreClauses ==
    [][(ret'.op = "clearLearnedClauses" /\ hist'.ops # hist.ops) =>
          /\ ClausesWhere(solver', LAMBDA c : TRUE) = ClausesWhere(solver, LAMBDA c : c.is_core)
          /\ ClausesWhere(solver', LAMBDA c : ~c.is_core) = {}]_vars

(***************************************************************************)
(* C25: after any sequence of calls on the database every live clause with *)
(* two or more literals is in the watch lists getWatches returns for its   *)
(* two stored watched literals, which are two distinct literals of the     *)
(* clause, and every live unit clause is in the watch list of its literal. *)
(***************************************************************************)
C25_WatchesConsistent ==
    \A id \in 0..(Len(solver.db.clauses) - 1) :
        LET c == solver.db.clauses[id + 1]
            watched(lit) == /\ WatchIdx(solver.db, lit) \in DOMAIN solver.db.watches
                            /\ InSeq(id, solver.db.watches[WatchIdx(solver.db, lit)])
        IN /\ (c.present /\ Len(c.literals) >= 2) =>
                 /\ watched(c.w1) /\ watched(c.w2)
                 /\ c.w1 # c.w2
                 /\ InSeq(c.w1, c.literals) /\ InSeq(c.w2, c.literals)
           /\ (c.present /\ Len(c.literals) = 1) => watched(c.literals[1])

(***************************************************************************)
(* C26: after any sequence of addClause, addLearnedClause and removeClause *)
(* getNumClauses() is the number of live clause slots and                  *)
(* getNumLearnedClauses() the number of live learned clauses.              *)
(***************************************************************************)
C26_CountersMatchLiveClauses ==
    /\ DbNumClauses(solver.db) = Cardinality({i \in 1..Len(solver.db.clauses) : solver.db.clauses[i].present})
    /\ solver.db.active_learned =
          Cardinality({i \in 1..Len(solver.db.clauses) :
                          solver.db.clauses[i].present /\ solver.db.clauses[i].is_learned})

(***************************************************************************)
(* C27: minimizeClause returns a sub-clause of its input, and a literal is *)
(* missing in the result only if it has an antecedent clause on the trail  *)
(* every other literal of which is the negation of a literal of the        *)
(* learned clause or is redundant by the same rule.  Stated for the solves *)
(* in which no checkTimeout() poll answered true.                          *)
(***************************************************************************)
C27_MinimizeRemovesRedundantOnly ==
    (hist.handed.level > 0 /\ ~hist.timedOut) =>
        /\ SeqToSet(hist.handed.clause) \subseteq SeqToSet(hist.handed.input)
        /\ hist.handed.justified

(***************************************************************************)
(* C28: every clause that solve stores with addLearnedClause is a logical  *)
(* consequence of the original and temporary clauses of the database:      *)
(* every total assignment that satisfies all of them makes some literal of *)
(* the stored clause true.  Stated for the solves in which no              *)
(* checkTimeout() poll answered true.                                      *)
(***************************************************************************)
C28_LearnedClauseIsImplied ==
    (hist.handed.level >= 0 /\ ~hist.timedOut) =>
        \A a \in [1..solver.db.num_variables -> BOOLEAN] :
            (\A c \in GivenClauses(solver) : \E i \in 1..Len(c) : Holds(a, c[i]))
                => \E k \in 1..Len(hist.handed.clause) :
                      hist.handed.clause[k] # 0 /\ Holds(a, hist.handed.clause[k])

(***************************************************************************)
(* C30: inside a solve, whatever cap setMaxLearnts has set, every trail    *)
(* entry that has an antecedent refers to a live clause slot: the          *)
(* reduction inside addLearnedClause never deletes the antecedent of a     *)
(* literal that is on the trail.                                           *)
(***************************************************************************)
C30_AntecedentsAreLive ==
    pc = "loop" =>
        \A i \in 1..Len(solver.trail) :
            solver.trail[i].antecedent_id # NoAntecedent
                => ValidClause(solver, solver.trail[i].antecedent_id)

====
